---- MODULE Spec2Model ----
(***************************************************************************)
(* Model of the streamFlow upload engine.                                  *)
(*                                                                         *)
(* ResumableUploadManager (src/src/lib/resumable-upload-manager.ts) and    *)
(* StateManager (src/src/lib/state-manager.ts) for one fileId.             *)
(*                                                                         *)
(* Granularity.  JavaScript runs a continuation to its next await without  *)
(* interruption.  An await on real I/O (a storage backend get/set/remove,  *)
(* fetch, crypto.subtle.digest, File.arrayBuffer, setTimeout) is a         *)
(* suspension point: every action below runs from one such point to the    *)
(* next.  An await on a promise that is already settled (getState on a     *)
(* hit of the in-memory map, the return of an async function) only yields  *)
(* for a microtask and is folded into the action.  A storage operation     *)
(* takes effect when it is issued (localStorage is synchronous, IndexedDB  *)
(* runs its transactions in creation order); its promise resolves in a     *)
(* later action.                                                           *)
(*                                                                         *)
(* UploadState objects live on a heap, because the code shares them by     *)
(* reference: memoryStates, the local `state` of performUpload and the     *)
(* object updateProgress mutates are usually, but not always, one object.  *)
(***************************************************************************)
EXTENDS Integers, Sequences, FiniteSets, TLC

\* ---------------------------------------------------------------- bounds
FileSize == 3        \* file.size in Spec, in units of half a MiB
BigFileSize == 5     \* file.size in SpecResume
MaxRuns == 2         \* startUpload calls that are accepted
MaxFailures == 1     \* chunk POSTs the environment lets fail
MaxCrashes == 1      \* process crashes
MaxCtl == 2          \* pauseUpload / cancelUpload calls
MaxNetworkFailures == 6  \* chunk POSTs that fail with a network error in SpecRetry
MaxKindFailures == 7     \* chunk POSTs that fail in SpecRetryKinds
MaxRetryCount == 6   \* largest context.retryCount handleError is called with
MaxStrategyEdits == 2  \* addRetryStrategy / removeRetryStrategy calls

\* 1 MiB chunks (value: 1024 * 1024), here two units
ChunkSize == 2

\* ------------------------------------------------------------- chunking
Min(a, b) == IF a < b THEN a ELSE b

\* createSizeBasedChunks: totalChunks = Math.ceil(file.size / chunkSize)
CeilDiv(size, n) == (size + n - 1) \div n

\* chunk indices of the largest file of the model
ChunkIdx == 0 .. (CeilDiv(BigFileSize, ChunkSize) - 1)

VARIABLES
  fileSize,          \* fileItem.file.size
  heap,              \* UploadState objects of the running process
  memoryStates,      \* StateManager.memoryStates.get(fileId): object ref, 0 = absent
  storage,           \* backend value of upload_state_{fileId}
  chunkStore,        \* backend chunk_state_{fileId}_{i}: attempts recorded, 0 = absent
  abortControllers,  \* ResumableUploadManager.abortControllers.get(fileId): run, 0 = absent
  uploadPromises,    \* ResumableUploadManager.uploadPromises.get(fileId): run, 0 = absent
  numRuns,           \* startUpload calls accepted so far
  run,               \* per run: the frame of performUpload
  task,              \* per run and chunk: the frame of the map callback
  aborted,           \* per run: signal.aborted of its AbortController
  ctl,               \* the caller's pending pauseUpload / cancelUpload / resumeUpload
  posts,             \* per run and chunk: number of fetch POSTs issued
  acked,             \* per run: chunks whose POST returned 2xx
  cb,                \* per run: last progress callback
  env,               \* environment budget used: failures, crashes, ctl calls
  hist,              \* history of the caller's observations
  em,                \* ErrorManager: retryStrategies and the last handleError
  sec,               \* SecurityManager: clock, rateLimits and activeTokens of one user
  stream,            \* StreamUploadManager: per startStreaming call, its frame and maps
  queue,             \* QueueManager: queue, activeUploads and the last getNext
  chunker,           \* one createSizeBasedChunks call and one ReadableStream source
  wm,                \* WorkerManager: taskQueue, activeWorkers, tasks and dispatches
  mm,                \* MemoryManager: resources, memoryStats and its running cleanup
  sm,                \* a StateManager called directly: its map, backend and updateProgress calls
  cache,             \* ChunkCache: its Map in insertion order, the clock and the set calls under way
  csv                \* one createLineBasedChunks call on a CSV file

\* the variables of ResumableUploadManager and StateManager
rumVars == << fileSize, heap, memoryStates, storage, chunkStore, abortControllers,
              uploadPromises, numRuns, run, task, aborted, ctl, posts, acked,
              cb, env, hist >>

\* the variables of the other components
otherVars == << em, sec, stream, queue, chunker, wm, mm, sm, cache, csv >>

\* the variables of the chunking, the workers and the memory manager
laterVars == << chunker, wm, mm, sm, cache, csv >>

\* what the ErrorManager leaves alone, what the SecurityManager does, and
\* what the StreamUploadManager with its SecurityManager does
exceptEm == << rumVars, sec, stream, queue, laterVars >>
exceptSec == << rumVars, em, stream, queue, laterVars >>
exceptStream == << rumVars, em, queue, laterVars >>
exceptQueue == << rumVars, em, sec, stream, laterVars >>
\* the components after the MemoryManager
finalVars == << sm, cache, csv >>

exceptChunker == << rumVars, em, sec, stream, queue, wm, mm, finalVars >>
exceptWm == << rumVars, em, sec, stream, queue, chunker, mm, finalVars >>
exceptMm == << rumVars, em, sec, stream, queue, chunker, wm, finalVars >>
exceptSm == << rumVars, em, sec, stream, queue, chunker, wm, mm, cache, csv >>
exceptCache == << rumVars, em, sec, stream, queue, chunker, wm, mm, sm, csv >>
exceptCsv == << rumVars, em, sec, stream, queue, chunker, wm, mm, sm, cache >>

vars == << rumVars, otherVars >>

\* chunks.length of createChunks(fileItem.file, {chunking: size 1 MiB})
NumChunks == CeilDiv(fileSize, ChunkSize)

\* indices of the chunks of the file
Chunks == 0 .. (NumChunks - 1)

\* (chunk.data as Blob).size of file.slice(start, min(start + chunkSize, size))
ChunkBytes(i) == Min((i + 1) * ChunkSize, fileSize) - i * ChunkSize

RECURSIVE SumBytes(_)
SumBytes(S) ==
  IF S = {} THEN 0
  ELSE LET i == CHOOSE x \in S : TRUE IN ChunkBytes(i) + SumBytes(S \ {i})

Range(s) == { s[k] : k \in 1 .. Len(s) }

\* Array.prototype.includes
Includes(s, x) == \E k \in 1 .. Len(s) : s[k] = x

Runs == 1 .. MaxRuns

\* -------------------------------------------------------- error manager
ErrorTypes == {"network", "server", "validation", "storage", "unknown"}

\* the kinds of error the POST of a chunk is let fail with
ErrorKinds == {"network", "unknown"}

\* retryStrategies.get(type) of a type without strategy
NoStrategy == [maxRetries |-> 0, baseDelay |-> 0, maxDelay |-> 0,
               strategy |-> "none", hasSkipList |-> FALSE,
               requiresUserAction |-> FALSE]

\* initializeDefaultStrategies (delays in ms)
DefaultStrategies ==
  [type \in ErrorTypes |->
     CASE type = "network" ->
            [maxRetries |-> 5, baseDelay |-> 1000, maxDelay |-> 30000,
             strategy |-> "exponential", hasSkipList |-> TRUE,
             requiresUserAction |-> FALSE]
       [] type = "server" ->
            [maxRetries |-> 3, baseDelay |-> 2000, maxDelay |-> 10000,
             strategy |-> "linear", hasSkipList |-> TRUE,
             requiresUserAction |-> FALSE]
       [] type = "validation" ->
            [maxRetries |-> 2, baseDelay |-> 0, maxDelay |-> 1000,
             strategy |-> "immediate", hasSkipList |-> FALSE,
             requiresUserAction |-> TRUE]
       [] type = "storage" ->
            [maxRetries |-> 3, baseDelay |-> 500, maxDelay |-> 5000,
             strategy |-> "exponential", hasSkipList |-> TRUE,
             requiresUserAction |-> FALSE]
       [] OTHER -> NoStrategy]

\* getFibonacciNumber: the loop from i with (prev, curr)
RECURSIVE FibLoop(_, _, _, _)
FibLoop(i, n, prev, curr) ==
  IF i >= n THEN prev ELSE FibLoop(i + 1, n, curr, prev + curr)

GetFibonacciNumber(n) == FibLoop(0, n, 0, 1)

\* calculateNextRetryDelay with the exponent taken one too high
CalculateNextRetryDelay_OffByOne(s, attempt) ==
  LET delay == CASE s.strategy = "immediate" -> 0
                 [] s.strategy = "linear" -> s.baseDelay * attempt
                 [] s.strategy = "exponential" -> s.baseDelay * 2 ^ attempt
                 [] s.strategy = "fibonacci" ->
                      GetFibonacciNumber(attempt) * s.baseDelay
                 [] OTHER -> s.baseDelay
  IN Min(delay, s.maxDelay)

\* calculateNextRetryDelay(strategy, attempt)
CalculateNextRetryDelay(s, attempt) ==
  LET delay == CASE s.strategy = "immediate" -> 0
                 [] s.strategy = "linear" -> s.baseDelay * attempt
                 [] s.strategy = "exponential" -> s.baseDelay * 2 ^ (attempt - 1)
                 [] s.strategy = "fibonacci" ->
                      GetFibonacciNumber(attempt) * s.baseDelay
                 [] OTHER -> s.baseDelay
  IN Min(delay, s.maxDelay)

\* context.isRecoverable is an optional boolean
Recoverable == {"true", "false", "undefined"}

\* assessSeverity(error, context), the checks in the order of the code
AssessSeverity(type, retryCount, isRecoverable) ==
  IF isRecoverable = "false" THEN "critical"
  ELSE IF type = "network" /\ retryCount < 3 THEN "warning"
  ELSE IF type = "validation" THEN "error"
  ELSE IF retryCount >= 5 THEN "critical"
  ELSE "error"

\* handleError without the comparison of retryCount with maxRetries
HandleErrorResult_NoMaxRetries(strategies, type, skipMatch, retryCount) ==
  LET s == strategies[type]
      no == [shouldRetry |-> FALSE, retryDelay |-> 0]
  IN IF s = NoStrategy THEN no
     ELSE IF s.hasSkipList /\ skipMatch THEN no
     ELSE IF s.requiresUserAction THEN no
     ELSE [shouldRetry |-> TRUE,
           retryDelay |-> CalculateNextRetryDelay(s, retryCount + 1)]

\* handleError with the branch of requiresUserAction left out
HandleErrorResult_NoUserAction(strategies, type, skipMatch, retryCount) ==
  LET s == strategies[type]
      no == [shouldRetry |-> FALSE, retryDelay |-> 0]
  IN IF s = NoStrategy THEN no
     ELSE IF s.hasSkipList /\ skipMatch THEN no
     ELSE IF retryCount >= s.maxRetries THEN no
     ELSE [shouldRetry |-> TRUE,
           retryDelay |-> CalculateNextRetryDelay(s, retryCount + 1)]

\* handleError: the calls of notifyError(errorReport) it makes, one in
\* logError and one more in the branch of requiresUserAction
NotifyErrorCalls(strategies, type, skipMatch) ==
  LET s == strategies[type]
  IN IF s = NoStrategy THEN 1
     ELSE IF s.hasSkipList /\ skipMatch THEN 1
     ELSE IF s.requiresUserAction THEN 2
     ELSE 1

\* handleError: what it returns for an error of the type whose message
\* matches (skipMatch) or not an entry of skipIfErrorIncludes
HandleErrorResult(strategies, type, skipMatch, retryCount) ==
  LET s == strategies[type]
      no == [shouldRetry |-> FALSE, retryDelay |-> 0]
  IN IF s = NoStrategy THEN no
     ELSE IF s.hasSkipList /\ skipMatch THEN no
     ELSE IF s.requiresUserAction THEN no
     ELSE IF retryCount >= s.maxRetries THEN no
     ELSE [shouldRetry |-> TRUE,
           retryDelay |-> CalculateNextRetryDelay(s, retryCount + 1)]

\* strategies addRetryStrategy is called with
CustomStrategies ==
  { [maxRetries |-> 6, baseDelay |-> 1000, maxDelay |-> 4000,
     strategy |-> "fibonacci", hasSkipList |-> FALSE,
     requiresUserAction |-> FALSE],
    [maxRetries |-> 4, baseDelay |-> 500, maxDelay |-> 1200,
     strategy |-> "linear", hasSkipList |-> TRUE,
     requiresUserAction |-> FALSE],
    [maxRetries |-> 3, baseDelay |-> 1000, maxDelay |-> 3000,
     strategy |-> "exponential", hasSkipList |-> FALSE,
     requiresUserAction |-> FALSE],
    [maxRetries |-> 2, baseDelay |-> 700, maxDelay |-> 1000,
     strategy |-> "immediate", hasSkipList |-> FALSE,
     requiresUserAction |-> FALSE] }

\* no handleError call yet
NoCall == [called |-> FALSE, type |-> "unknown", skipMatch |-> FALSE,
           retryCount |-> 0, isRecoverable |-> "undefined",
           strategy |-> NoStrategy, severity |-> "error", notified |-> 0,
           shouldRetry |-> FALSE, retryDelay |-> 0]

\* the default strategies have one for the kind
HasStrategy(kind) == DefaultStrategies[kind] # NoStrategy

StrategyMaxRetries(kind) == DefaultStrategies[kind].maxRetries

\* handleError: shouldRetry, for the errors of a chunk POST
ShouldRetry(kind, retryCount) ==
  HandleErrorResult(DefaultStrategies, kind, FALSE, retryCount).shouldRetry

\* canResume: resumableStates.includes(state.status)
ResumableStates == {"initialized", "uploading", "paused", "interrupted"}

\* ---------------------------------------------------------------- state
\* the value of an absent key / a null reference
Null == [status |-> "null", totalChunks |-> 0, uploadedChunks |-> << >>,
         bytesUploaded |-> 0]

\* initializeState: the fresh UploadState
FreshState == [status |-> "initialized", totalChunks |-> 0,
               uploadedChunks |-> << >>, bytesUploaded |-> 0]

NoRun == [pc |-> "none", state |-> 0, isResume |-> FALSE, got |-> Null,
          bytesUploaded |-> 0, baseU |-> {}, how |-> "none"]

\* delays: the retryDelay of every setTimeout of the retry loop so far;
\* kinds: the kinds of the errors its POSTs have failed with
NoTask == [pc |-> "none", attempts |-> 0, got |-> Null, delays |-> << >>,
           kinds |-> {}]

NoCb == [has |-> FALSE, bytes |-> 0, expected |-> 0]

\* live: the call found an AbortController; runs: numRuns at the call
IdleCtl == [op |-> "none", pc |-> "idle", got |-> Null, live |-> FALSE,
            runs |-> 0, afterPause |-> FALSE]

\* what the caller has seen so far
\*   pausedHold     a pauseUpload of a live upload has resolved and neither
\*                  resumeUpload, startUpload nor cancelUpload was called since
\*   cancelledHold  a cancelUpload has resolved and no upload was started since
\*   tokenAborted   pauseUpload / cancelUpload aborted the file's controller and
\*                  no upload was started since
\*   postAfterAbort a POST was issued while tokenAborted
\*   resumeAfterPause  outcome of a resumeUpload called while pausedHold
\*   startRejected  a startUpload was rejected with 'Upload already in progress'
\*   crashed, crashU   a crash happened with a persisted state; its uploadedChunks
\*   afterCrash     the run a resumeUpload started first after the crash
NoHist == [pausedHold |-> FALSE, cancelledHold |-> FALSE, tokenAborted |-> FALSE,
           postAfterAbort |-> FALSE, resumeAfterPause |-> "none",
           startRejected |-> FALSE, crashed |-> FALSE, crashU |-> {},
           afterCrash |-> 0]

\* ResumableUploadManager and StateManager after construction
RumInit(size) ==
  /\ fileSize = size
  /\ heap = << >>
  /\ memoryStates = 0
  /\ storage = Null
  /\ chunkStore = [i \in ChunkIdx |-> 0]
  /\ abortControllers = 0
  /\ uploadPromises = 0
  /\ numRuns = 0
  /\ run = [r \in Runs |-> NoRun]
  /\ task = [r \in Runs |-> [i \in ChunkIdx |-> NoTask]]
  /\ aborted = [r \in Runs |-> FALSE]
  /\ ctl = IdleCtl
  /\ posts = [r \in Runs |-> [i \in ChunkIdx |-> 0]]
  /\ acked = [r \in Runs |-> {}]
  /\ cb = [r \in Runs |-> NoCb]
  /\ env = [failures |-> 0, crashes |-> 0, ctl |-> 0]
  /\ hist = NoHist

\* ErrorManager after construction
EmInit == [retryStrategies |-> DefaultStrategies, edits |-> 0, last |-> NoCall]

\* ------------------------------------------------- SecurityManager: state

\* configuration of the SecurityManager of the model (rateLimit and
\* accessControl enabled, as by default)
maxRequestsPerMinute == 3
maxConcurrentUploads == 2

\* the rate limiter's window and the milliseconds of a second
WindowMs == 60000
MsPerSecond == 1000

\* accessControl: tokenExpiration in seconds, and maxTokensPerUser
tokenExpiration == 2
maxTokensPerUser == 2

\* calls of checkRateLimit and advances of the clock in one behaviour
MaxChecks == 5
MaxTicks == 3

\* calls of generateAccessToken in one behaviour
MaxTokens == 3
Tokens == 1 .. MaxTokens

\* userLimit.requests.filter(time => now - time < 60000), the comparison
\* made inclusive
FilterWindow_Inclusive(requests, now) ==
  SelectSeq(requests, LAMBDA time : now - time <= WindowMs)

\* userLimit.requests.filter(time => now - time < 60000)
FilterWindow(requests, now) ==
  SelectSeq(requests, LAMBDA time : now - time < WindowMs)

\* checkRateLimit(userId) on the user's entry: the answer and the entry it
\* leaves (an absent entry reads as no requests and no uploads)
CheckRateLimitResult(s) ==
  LET requests == FilterWindow(s.requests, s.now)
  IN IF Len(requests) >= maxRequestsPerMinute
       THEN [ok |-> FALSE, requests |-> requests,
             concurrentUploads |-> s.concurrentUploads]
     ELSE IF s.concurrentUploads >= maxConcurrentUploads
       THEN [ok |-> FALSE, requests |-> requests,
             concurrentUploads |-> s.concurrentUploads]
     ELSE [ok |-> TRUE, requests |-> Append(requests, s.now),
           concurrentUploads |-> s.concurrentUploads + 1]

\* releaseRateLimit(userId): Math.max(0, concurrentUploads - 1)
ReleasedUploads(n) == IF n - 1 > 0 THEN n - 1 ELSE 0

NoCheck == [called |-> FALSE, at |-> 0, admitted |-> FALSE]

\* the delay handed to setTimeout in generateAccessToken:
\* tokenExpiration ?? 0 * 1000 is tokenExpiration ?? (0 * 1000), and
\* tokenExpiration is a number, so the delay is tokenExpiration milliseconds
ExpiryTimerDelay(expiration) == expiration

\* the age above which validateAccessToken deletes a token:
\* (tokenExpiration ?? 0) * 1000
MaxTokenAge(expiration) == expiration * MsPerSecond

\* activeTokens without token id (Set.delete)
WithoutToken(tokens, id) == SelectSeq(tokens, LAMBDA t : t.id # id)

HasToken(tokens, id) == \E n \in DOMAIN tokens : tokens[n].id = id

\* validateAccessToken(token) for the token with number id: the answer and
\* the activeTokens it leaves; a token never returned is not in the set
ValidateAccessTokenResult(s, id) ==
  LET present == HasToken(s.activeTokens, id)
      expired == present /\ s.now - s.issued[id] > MaxTokenAge(tokenExpiration)
  IN [ok |-> present /\ ~expired,
      activeTokens |-> IF expired THEN WithoutToken(s.activeTokens, id)
                                  ELSE s.activeTokens]

NoValidate == [called |-> FALSE, id |-> 0, at |-> 0, issued |-> 0,
               removed |-> "no", accepted |-> FALSE]

\* SecurityManager after construction, at time 0 of the clock
SecInit ==
  [now |-> 0, ticks |-> 0,
   requests |-> << >>, concurrentUploads |-> 0,
   checks |-> 0, admissions |-> << >>, lastCheck |-> NoCheck,
   activeTokens |-> << >>, timers |-> {}, issued |-> << >>,
   removed |-> [id \in Tokens |-> "no"], lastValidate |-> NoValidate]

\* --------------------------------------------- StreamUploadManager: state

\* config.concurrentStreams of the StreamUploadManager: the constructor
\* stores it and no method reads it; the ResumableUploadManager has no such
\* setting
concurrentStreams == 2

\* startStreaming calls in one behaviour, and chunks of each file
MaxCalls == 4
StreamChunks == 2
Calls == 1 .. MaxCalls

\* a startStreaming call that was not made yet: pc is the await the call is
\* suspended at; tokenOk, rateOk and fileOk are the outcomes of the three
\* checks of validateAndPrepareUpload; key, state and controller are the
\* entries of encryptionKeys, activeStreams and abortControllers under the
\* call's fileId; reported is bytesUploaded of the last onProgress call,
\* in chunks
NoCall_Stream ==
  [pc |-> "idle", tokenOk |-> "unchecked", rateOk |-> "unchecked",
   fileOk |-> "unchecked", key |-> FALSE, state |-> "none",
   controller |-> FALSE, aborted |-> FALSE, offset |-> 0,
   bytesProcessed |-> 0, posts |-> 0, reported |-> 0]

StreamInit == [c \in Calls |-> NoCall_Stream]

\* releaseStreamResources(fileId)
ReleaseStreamResources(call) ==
  [call EXCEPT !.state = "none", !.controller = FALSE]

\* the finally block of startStreaming without encryptionKeys.delete
Finally_KeepsKey(call) == ReleaseStreamResources(call)

\* the finally block of startStreaming on the call's entries (its
\* releaseRateLimit is in Settle)
Finally(call) == [ReleaseStreamResources(call) EXCEPT !.key = FALSE]

\* concurrentUploads after n calls of releaseRateLimit
ReleaseTimes(uploads, n) ==
  IF n = 0 THEN uploads
  ELSE IF n = 1 THEN ReleasedUploads(uploads)
  ELSE ReleasedUploads(ReleasedUploads(uploads))

\* ---------------------------------------------------- QueueManager: state

\* new QueueManager(maxConcurrent), the fileIds and priorities of the
\* callers, and the calls and addToQueue calls in one behaviour
maxConcurrent == 1
MaxFiles == 3
MaxPriority == 1
MaxAdds == 3
MaxQueueOps == 6
Files == 1 .. MaxFiles

\* the comparator of sortQueue without its comparison of retryAttempts
SortsBefore_IgnoresRetries(a, b) ==
  IF b.priority # a.priority THEN b.priority - a.priority < 0
  ELSE a.startTime - b.startTime < 0

\* the comparator of sortQueue is negative: a sorts before b
SortsBefore(a, b) ==
  IF b.priority # a.priority THEN b.priority - a.priority < 0
  ELSE IF a.retryAttempts # b.retryAttempts
    THEN a.retryAttempts - b.retryAttempts < 0
  ELSE a.startTime - b.startTime < 0

\* item x put into the sorted q behind every item it does not sort before
InsertSorted(q, x) ==
  LET before == {n \in DOMAIN q : \A m \in n .. Len(q) : SortsBefore(x, q[m])}
      at == IF before = {} THEN Len(q) + 1
            ELSE CHOOSE n \in before : \A m \in before : n <= m
  IN SubSeq(q, 1, at - 1) \o << x >> \o SubSeq(q, at, Len(q))

RECURSIVE SortQueue(_)
\* sortQueue(): Array.prototype.sort, which is stable
SortQueue(q) ==
  IF Len(q) <= 1 THEN q
  ELSE InsertSorted(SortQueue(SubSeq(q, 1, Len(q) - 1)), q[Len(q)])

\* queue.findIndex(i => i.fileId === fileId), 0 for -1
FindIndex(q, fileId) ==
  LET found == {n \in DOMAIN q : q[n].fileId = fileId}
  IN IF found = {} THEN 0 ELSE CHOOSE n \in found : \A m \in found : n <= m

\* queue.find(item => item.status === 'queued'), as an index, 0 for none
FindQueued(q) ==
  LET found == {n \in DOMAIN q : q[n].status = "queued"}
  IN IF found = {} THEN 0 ELSE CHOOSE n \in found : \A m \in found : n <= m

\* the items with status uploading
Uploading(q) == {n \in DOMAIN q : q[n].status = "uploading"}

NoNext == [called |-> FALSE, uploadingBefore |-> 0, returned |-> 0]

\* QueueManager after construction
QueueInit == [queue |-> << >>, activeUploads |-> 0, adds |-> 0, ops |-> 0,
              now |-> 0, lastNext |-> NoNext]

\* -------------------------------------------------------- chunking: state

\* file sizes and chunk sizes of the chunking calls of the model
MaxChunkedSize == 8
MaxChunkSize == 4

\* the end of a slice without the bound of the file
SliceEnd_NoMin(start, chunkSize, size) == start + chunkSize

\* Math.min(start + chunkSize, file.size) in createSizeBasedChunks, and
\* the end to which file.slice(offset, offset + chunkSize) is clamped
SliceEnd(start, chunkSize, size) == Min(start + chunkSize, size)

\* the locals of createSizeBasedChunks(file, chunkSize) before its loop and
\* of the source of createReadableStream(file) before its first pull
ChunkerInit(size, chunkSize) ==
  [size |-> size, chunkSize |-> chunkSize,
   totalChunks |-> CeilDiv(size, chunkSize),
   start |-> 0, index |-> 0, chunks |-> << >>, returned |-> FALSE,
   offset |-> 0, streamed |-> << >>, closed |-> FALSE]

\* --------------------------------------------------- WorkerManager: state

\* config.maxWorkers and config.retryAttempts of the WorkerManager of the
\* model, and the addTask calls in one behaviour
maxWorkers == 1
retryAttempts == 1
MaxTasks == 2

Workers == 1 .. maxWorkers
Tasks == 1 .. MaxTasks

\* a task addTask has not created yet.  promise is the promise addTask
\* returns; resolve is what task.resolve points to: 0 for the resolve of
\* that promise, d for the resolve of the race promise of dispatch d
NoTask_Wm == [promise |-> "none", attempts |-> 0, resolve |-> 0]

\* WorkerManager after construction: the workers idle, no task.  A
\* dispatch is one processNextTask call that posted a task: its race promise
\* and its timeout timer; inbox is what a worker was posted and has not
\* answered
WmInit ==
  [disposed |-> FALSE, taskQueue |-> << >>,
   activeWorkers |-> [w \in Workers |-> 0],
   tasks |-> [t \in Tasks |-> NoTask_Wm],
   dispatches |-> << >>,
   inbox |-> [w \in Workers |-> << >>]]

\* promise settled as outcome unless it is settled already
Settle(promise, outcome) == IF promise = "pending" THEN outcome ELSE promise

\* task.reject(error): always the reject of the promise of addTask
RejectTask(m, t) ==
  [m EXCEPT !.tasks[t].promise = Settle(@, "rejected")]

\* task.resolve(data): the resolve of the promise of addTask, or of the
\* race promise that processNextTask stored in its place
ResolveTask(m, t) ==
  LET d == m.tasks[t].resolve
  IN IF d = 0 THEN [m EXCEPT !.tasks[t].promise = Settle(@, "resolved")]
     ELSE [m EXCEPT !.dispatches[d].race = Settle(@, "resolved")]

\* processNextTask() up to its await: the first worker without a task gets
\* the head of the queue, the timer is armed, the message is posted, and
\* task.resolve is replaced by the resolve of the race promise
ProcessNextTask(m) ==
  LET free == {w \in Workers : m.activeWorkers[w] = 0}
      w == CHOOSE w \in free : \A v \in free : w <= v
      t == Head(m.taskQueue)
      d == Len(m.dispatches) + 1
  IN IF m.taskQueue = << >> \/ m.disposed \/ free = {} THEN m
     ELSE [m EXCEPT
            !.taskQueue = Tail(@),
            !.activeWorkers[w] = t,
            !.dispatches = Append(@, [task |-> t, worker |-> w,
                                      race |-> "pending", timer |-> "armed"]),
            !.inbox[w] = Append(@, t),
            !.tasks[t].resolve = d]

\* --------------------------------------------------- MemoryManager: state

maxMemoryUsage == 10     \* config.maxMemoryUsage, in units of 10 MiB
MaxResources == 2        \* trackResource calls
MaxResourceSize == 5     \* largest metadata.size, in the same units
MaxReleases == 2         \* releaseResource calls of one id awaiting dispose()

\* config.thresholds by default, in hundredths of maxMemoryUsage
WarningPercent == 70
CriticalPercent == 90

\* the ids trackResource returns, in the order it returns them
ResourceIds == 1 .. MaxResources

\* the metadata.size of the tracked resources: two of the larger exceed the
\* critical threshold, one of each the warning threshold only
ResourceSizes == {MaxResourceSize - 2, MaxResourceSize}

\* an id trackResource has not returned yet
NoResource ==
  [inResources |-> FALSE, target |-> "none", disposable |-> FALSE,
   disposed |-> FALSE, hasStats |-> FALSE, size |-> 0, release |-> 0,
   cleanups |-> 0]

\* no checkMemoryUsage or cleanup call under way
NoCleanup == [pc |-> "idle", caller |-> "none", level |-> "none",
              currentMemory |-> 0, cursor |-> 0]

\* MemoryManager after construction.  Per id: its entry of resources, the
\* state of the object its WeakRef points to (alive, collected, finalized
\* when the FinalizationRegistry has called back), whether the object has a
\* dispose method and whether one dispose() call has returned, its entry of
\* resourceStats, the number of releaseResource calls waiting for dispose()
\* and the number of handleResourceCleanup(id) calls made so far.
\* lastLevel is the level of the last forceCleanup that ran the callbacks.
MmInit ==
  [res |-> [id \in ResourceIds |-> NoResource],
   nextId |-> 1,
   totalAllocated |-> 0, activeResources |-> 0, peakMemoryUsage |-> 0,
   cleanup |-> NoCleanup, lastLevel |-> "none", disposed |-> FALSE]

\* ---------------------------------------------------- StateManager: state

MaxAcked == 3        \* chunks of the file whose POST is acknowledged
MaxReloads == 1      \* new StateManagers made over the same backend

\* the chunkIndex of the updateProgress calls
AckedChunks == 0 .. (MaxAcked - 1)

\* no updateProgress call for the chunk yet
NoUpdate == [pc |-> "none", got |-> Null, found |-> FALSE]

\* a new StateManager over an empty backend: no UploadState object, the map
\* and the key of the file empty
SmInit ==
  [heap |-> << >>, memoryStates |-> 0, storage |-> Null,
   update |-> [i \in AckedChunks |-> NoUpdate], reloads |-> 0]

\* ------------------------------------------------------ ChunkCache: state

maxSize == 2         \* capacity of the ChunkCache
maxAge == 2          \* time to live of an entry, in ticks of the clock
MaxCacheKeys == 3    \* different keys set is called with
MaxCacheTicks == 3   \* ticks of the clock

CacheKeys == 1 .. MaxCacheKeys

\* new ChunkCache(maxSize, maxAge): the Map is empty; entries are kept in
\* the order of their insertion, as the Map iterates them
CacheInit ==
  [entries |-> << >>, now |-> 0, setting |-> {}, evicted |-> 0]

\* ------------------------------------------------- line chunking: state

linesPerChunk == 2   \* config.chunking.value of a CSV file
MaxRows == 6         \* rows of the largest CSV file

\* createLineBasedChunks at Papa.parse: arrays holds the string[][] arrays
\* made so far (rows are numbered in input order), currentChunk points to
\* one of them, validating holds the chunks whose processChunk is awaited,
\* in the order of their 10 ms timers
CsvInit ==
  [arrays |-> << << >> >>, currentChunk |-> 1, chunkIndex |-> 0,
   chunks |-> << >>, validating |-> << >>, parsed |-> 0,
   completed |-> FALSE, resolved |-> FALSE]

\* the components other than the ResumableUploadManager after construction
ComponentsInit ==
  /\ em = EmInit
  /\ sec = SecInit
  /\ stream = StreamInit
  /\ queue = QueueInit
  /\ wm = WmInit
  /\ mm = MmInit
  /\ sm = SmInit
  /\ cache = CacheInit
  /\ csv = CsvInit

InitWith(size) ==
  /\ RumInit(size)
  /\ ComponentsInit
  /\ chunker = ChunkerInit(size, ChunkSize)

Init == InitWith(FileSize)

\* ---------------------------------------------------------- StateManager

\* updateProgress: the mutation of the state object
UpdatedState(s, chunkIndex, bytes) ==
  [s EXCEPT !.bytesUploaded = bytes,
            !.uploadedChunks = IF Includes(@, chunkIndex) THEN @
                               ELSE Append(@, chunkIndex)]

\* getResumableChunks without its filter: every index below totalChunks
ResumableChunks_NoFilter(s) == 0 .. (s.totalChunks - 1)

\* getResumableChunks: indices below totalChunks that uploadedChunks lacks
ResumableChunks(s) ==
  { i \in 0 .. (s.totalChunks - 1) : ~Includes(s.uploadedChunks, i) }

\* canResume
CanResume(s) == s # Null /\ s.status \in ResumableStates

\* the set of chunks a state records as uploaded
Uploaded(s) == Range(s.uploadedChunks)

\* the UploadState memoryStates holds (Null when absent)
MemState == IF memoryStates = 0 THEN Null ELSE heap[memoryStates]

\* ------------------------------------------- ResumableUploadManager: runs

\* startUpload past its guard: a new AbortController, performUpload up to its
\* first suspension (getState), the promise registered.  mem is memoryStates
\* at the call, sto the backend value.
Accept(how, mem, sto) ==
  LET r == numRuns + 1 IN
  /\ numRuns' = r
  /\ abortControllers' = r
  /\ uploadPromises' = r
  /\ run' = [run EXCEPT ![r] =
       IF mem # 0
       THEN [NoRun EXCEPT !.pc = "createChunks", !.state = mem,
                          !.isResume = TRUE, !.how = how]
       ELSE [NoRun EXCEPT !.pc = "getState", !.got = sto, !.how = how]]

\* startUpload without its uploadPromises.has guard
StartUpload_NoGuard ==
  /\ numRuns < MaxRuns
  /\ Accept("start", memoryStates, storage)
  /\ hist' = [hist EXCEPT !.pausedHold = FALSE,
                          !.cancelledHold = FALSE, !.tokenAborted = FALSE,
                          !.afterCrash = IF hist.crashed /\ @ = 0 THEN -1 ELSE @]
  /\ UNCHANGED << fileSize, heap, memoryStates, storage, chunkStore, task, aborted, ctl,
                  posts, acked, cb, env >>
  /\ UNCHANGED otherVars

\* startUpload(fileItem, endpoint, onProgress) called by the user
StartUpload ==
  /\ numRuns < MaxRuns
  /\ uploadPromises = 0
  /\ Accept("start", memoryStates, storage)
  /\ hist' = [hist EXCEPT !.pausedHold = FALSE,
                          !.cancelledHold = FALSE, !.tokenAborted = FALSE,
                          !.afterCrash = IF hist.crashed /\ @ = 0 THEN -1 ELSE @]
  /\ UNCHANGED << fileSize, heap, memoryStates, storage, chunkStore, task, aborted, ctl,
                  posts, acked, cb, env >>
  /\ UNCHANGED otherVars

\* startUpload while uploadPromises has the fileId: it throws 'Upload already
\* in progress' before it touches anything
StartUploadRejected ==
  /\ uploadPromises # 0
  /\ hist' = [hist EXCEPT !.startRejected = TRUE]
  /\ UNCHANGED << fileSize, heap, memoryStates, storage, chunkStore,
                  abortControllers, uploadPromises, numRuns, run, task, aborted,
                  ctl, posts, acked, cb, env >>
  /\ UNCHANGED otherVars

\* performUpload: getState resumes after storage.get
RunGetState(r) ==
  /\ run[r].pc = "getState"
  /\ IF run[r].got # Null
     THEN \* JSON.parse, memoryStates.set, createChunks
          /\ heap' = Append(heap, run[r].got)
          /\ memoryStates' = Len(heap) + 1
          /\ run' = [run EXCEPT ![r] = [@ EXCEPT !.pc = "createChunks",
                       !.state = Len(heap) + 1, !.isResume = TRUE, !.got = Null]]
     ELSE \* initializeState: calculateFileChecksum
          /\ run' = [run EXCEPT ![r] = [@ EXCEPT !.pc = "initChecksum"]]
          /\ UNCHANGED << fileSize, heap, memoryStates >>
  /\ UNCHANGED << fileSize, storage, chunkStore, abortControllers, uploadPromises, numRuns,
                  task, aborted, ctl, posts, acked, cb, env, hist >>
  /\ UNCHANGED otherVars

\* initializeState: the checksum is there, the state is built and saved; when
\* the save has resolved createChunks is called (nothing happens in between,
\* so the two suspensions are one here)
RunInitChecksum(r) ==
  /\ run[r].pc = "initChecksum"
  /\ heap' = Append(heap, FreshState)
  /\ memoryStates' = Len(heap) + 1
  /\ storage' = FreshState
  /\ run' = [run EXCEPT ![r] = [@ EXCEPT !.pc = "createChunks",
                                         !.state = Len(heap) + 1]]
  /\ UNCHANGED << fileSize, chunkStore, abortControllers, uploadPromises, numRuns, task,
                  aborted, ctl, posts, acked, cb, env, hist >>
  /\ UNCHANGED otherVars

\* createChunks returns: state.totalChunks = chunks.length; saveState
RunCreateChunks(r) ==
  /\ run[r].pc = "createChunks"
  /\ LET obj == run[r].state
         h == [heap EXCEPT ![obj] = [@ EXCEPT !.totalChunks = NumChunks]]
     IN /\ heap' = h
        /\ memoryStates' = obj
        /\ storage' = h[obj]
  /\ run' = [run EXCEPT ![r] = [@ EXCEPT !.pc = "saveTotal"]]
  /\ UNCHANGED << fileSize, chunkStore, abortControllers, uploadPromises, numRuns, task,
                  aborted, ctl, posts, acked, cb, env, hist >>
  /\ UNCHANGED otherVars

\* lines 220-273 up to the next suspension: the remaining chunks are known;
\* bytesUploaded = state.bytesUploaded; every map callback runs to its first
\* await; with nothing to upload Promise.all resolves and the completion is
\* saved.  h, mem are the heap and memoryStates the step has produced so far.
Launch(r, h, mem, rem) ==
  LET obj == run[r].state
      done == [h EXCEPT ![obj] = [@ EXCEPT !.status = "completed",
                                           !.bytesUploaded = fileSize]]
  IN /\ task' = [task EXCEPT ![r] =
           [i \in ChunkIdx |-> IF i \in rem THEN [NoTask EXCEPT !.pc = "start"]
                               ELSE NoTask]]
     /\ IF rem = {}
        THEN /\ heap' = done
             /\ memoryStates' = obj
             /\ storage' = done[obj]
             /\ run' = [run EXCEPT ![r] = [@ EXCEPT !.pc = "saveCompleted",
                          !.bytesUploaded = h[obj].bytesUploaded,
                          !.baseU = Chunks \ rem, !.got = Null]]
        ELSE /\ heap' = h
             /\ memoryStates' = mem
             /\ UNCHANGED storage
             /\ run' = [run EXCEPT ![r] = [@ EXCEPT !.pc = "awaitAll",
                          !.bytesUploaded = h[obj].bytesUploaded,
                          !.baseU = Chunks \ rem, !.got = Null]]

\* the save of totalChunks has resolved: derive remainingChunks
RunSaveTotal(r) ==
  /\ run[r].pc = "saveTotal"
  /\ IF ~run[r].isResume
     THEN Launch(r, heap, memoryStates, Chunks)
     ELSE IF memoryStates # 0
     THEN Launch(r, heap, memoryStates, ResumableChunks(heap[memoryStates]))
     ELSE \* getResumableChunks: getState misses the map, storage.get
          /\ run' = [run EXCEPT ![r] = [@ EXCEPT !.pc = "getResumable",
                                                 !.got = storage]]
          /\ UNCHANGED << fileSize, heap, memoryStates, storage, task >>
  /\ UNCHANGED << fileSize, chunkStore, abortControllers, uploadPromises, numRuns, aborted,
                  ctl, posts, acked, cb, env, hist >>
  /\ UNCHANGED otherVars

\* getResumableChunks resumes after storage.get
RunGetResumable(r) ==
  /\ run[r].pc = "getResumable"
  /\ IF run[r].got # Null
     THEN Launch(r, Append(heap, run[r].got), Len(heap) + 1,
                 ResumableChunks(run[r].got))
     ELSE Launch(r, heap, memoryStates, {})
  /\ UNCHANGED << fileSize, chunkStore, abortControllers, uploadPromises, numRuns, aborted,
                  ctl, posts, acked, cb, env, hist >>
  /\ UNCHANGED otherVars

\* chunks of run r whose map callback has passed uploadChunkWithRetry
DoneChunks(r) == { i \in ChunkIdx : task[r][i].pc = "done" }

\* what a progress callback of run r should report when the chunks in done
\* have been uploaded by it: the bytes of the chunks uploaded before the run
\* plus theirs
Expected(r, done) == SumBytes(run[r].baseU \cup done)

\* the completion save has resolved: final onProgress, performUpload returns,
\* startUpload's finally clears the maps
RunSaveCompleted(r) ==
  /\ run[r].pc = "saveCompleted"
  /\ run' = [run EXCEPT ![r] = [@ EXCEPT !.pc = "resolved"]]
  /\ cb' = [cb EXCEPT ![r] = [has |-> TRUE, bytes |-> fileSize,
                              expected |-> Expected(r, DoneChunks(r))]]
  /\ uploadPromises' = 0
  /\ abortControllers' = 0
  /\ UNCHANGED << fileSize, heap, memoryStates, storage, chunkStore, numRuns, task,
                  aborted, ctl, posts, acked, env, hist >>
  /\ UNCHANGED otherVars

\* ------------------------------------- ResumableUploadManager: chunk tasks

\* a chunk task throws out of uploadChunkWithRetry: the map callback rethrows,
\* Promise.all rejects, performUpload rethrows and startUpload's finally
\* deletes the fileId from both maps.  Later rejections of the same run go
\* nowhere.
ThrowAfter(r, i, failedWith) ==
  /\ task' = [task EXCEPT ![r][i] = [@ EXCEPT !.pc = "failed", !.got = Null,
                                               !.kinds = @ \cup failedWith]]
  /\ IF run[r].pc = "awaitAll"
     THEN /\ run' = [run EXCEPT ![r] = [@ EXCEPT !.pc = "rejected"]]
          /\ uploadPromises' = 0
          /\ abortControllers' = 0
     ELSE UNCHANGED << run, uploadPromises, abortControllers >>

\* uploadChunkWithRetry throws without a failed POST (signal aborted)
Throw(r, i) == ThrowAfter(r, i, {})

\* uploadChunkWithRetry, one turn of the loop up to the fetch: verifyChecksum,
\* saveChunkState, uploadChunk: fetch(endpoint, {method: 'POST', signal}).  A
\* signal that is already aborted rejects the fetch before any request is made.
TaskPost(r, i) ==
  /\ task[r][i].pc = "start"
  /\ chunkStore' = [chunkStore EXCEPT ![i] = task[r][i].attempts + 1]
  /\ IF aborted[r]
     THEN /\ Throw(r, i)
          /\ UNCHANGED << posts, hist >>
     ELSE /\ task' = [task EXCEPT ![r][i] = [@ EXCEPT !.pc = "fetch"]]
          /\ posts' = [posts EXCEPT ![r][i] = @ + 1]
          /\ hist' = [hist EXCEPT !.postAfterAbort = @ \/ hist.tokenAborted]
          /\ UNCHANGED << run, uploadPromises, abortControllers >>
  /\ UNCHANGED << fileSize, heap, memoryStates, storage, numRuns, aborted, ctl,
                  acked, cb, env >>
  /\ UNCHANGED otherVars

\* the map callback after uploadChunkWithRetry returned (lines 236-255):
\* bytesUploaded += size; onProgress if more than 100 ms have passed (emit);
\* when it was the last callback Promise.all resolves and lines 271-273 run.
\* h, mem, sto are the heap, memoryStates and backend value the step has
\* produced so far.
Finish(r, i, h, mem, sto, emit) ==
  LET bytes == run[r].bytesUploaded + ChunkBytes(i)
      done == DoneChunks(r) \cup {i}
      last == /\ run[r].pc = "awaitAll"
              /\ \A j \in ChunkIdx : task[r][j].pc # "none" => j \in done
      obj == run[r].state
      fin == [h EXCEPT ![obj] = [@ EXCEPT !.status = "completed",
                                          !.bytesUploaded = fileSize]]
  IN /\ task' = [task EXCEPT ![r][i] = [@ EXCEPT !.pc = "done", !.got = Null]]
     /\ cb' = IF emit
              THEN [cb EXCEPT ![r] = [has |-> TRUE, bytes |-> bytes,
                                      expected |-> Expected(r, done)]]
              ELSE cb
     /\ IF last
        THEN /\ heap' = fin
             /\ memoryStates' = obj
             /\ storage' = fin[obj]
             /\ run' = [run EXCEPT ![r] = [@ EXCEPT !.pc = "saveCompleted",
                                                    !.bytesUploaded = bytes]]
        ELSE /\ heap' = h
             /\ memoryStates' = mem
             /\ storage' = sto
             /\ run' = [run EXCEPT ![r] = [@ EXCEPT !.bytesUploaded = bytes]]

\* the POST returned 2xx: updateProgress.  getState hits the in-memory map
\* (the object is mutated and saved at once) or goes to the backend.
TaskFetchOk(r, i) ==
  /\ task[r][i].pc = "fetch"
  /\ ~aborted[r]
  /\ acked' = [acked EXCEPT ![r] = @ \cup {i}]
  /\ IF memoryStates # 0
     THEN LET h == [heap EXCEPT ![memoryStates] =
                      UpdatedState(@, i, ChunkBytes(i))]
          IN /\ heap' = h
             /\ storage' = h[memoryStates]
             /\ task' = [task EXCEPT ![r][i] = [@ EXCEPT !.pc = "upSave"]]
             /\ UNCHANGED memoryStates
     ELSE /\ task' = [task EXCEPT ![r][i] = [@ EXCEPT !.pc = "upGet",
                                                     !.got = storage]]
          /\ UNCHANGED << fileSize, heap, memoryStates, storage >>
  /\ UNCHANGED << fileSize, chunkStore, abortControllers, uploadPromises, numRuns, run,
                  aborted, ctl, posts, cb, env, hist >>
  /\ UNCHANGED otherVars

\* updateProgress resumes after storage.get: nothing stored, nothing updated;
\* else the parsed object enters memoryStates, is mutated and saved
TaskUpGet(r, i, emit) ==
  /\ task[r][i].pc = "upGet"
  /\ IF task[r][i].got # Null
     THEN LET h == Append(heap, UpdatedState(task[r][i].got, i, ChunkBytes(i)))
          IN /\ heap' = h
             /\ memoryStates' = Len(h)
             /\ storage' = h[Len(h)]
             /\ task' = [task EXCEPT ![r][i] = [@ EXCEPT !.pc = "upSave",
                                                        !.got = Null]]
             /\ UNCHANGED << run, cb >>
     ELSE Finish(r, i, heap, memoryStates, storage, emit)
  /\ UNCHANGED << fileSize, chunkStore, abortControllers, uploadPromises, numRuns, aborted,
                  ctl, posts, acked, env, hist >>
  /\ UNCHANGED otherVars

\* the save of updateProgress has resolved: uploadChunkWithRetry returns
TaskUpSave(r, i, emit) ==
  /\ task[r][i].pc = "upSave"
  /\ Finish(r, i, heap, memoryStates, storage, emit)
  /\ UNCHANGED << fileSize, chunkStore, abortControllers, uploadPromises, numRuns, aborted,
                  ctl, posts, acked, env, hist >>
  /\ UNCHANGED otherVars

\* uploadChunkWithRetry's catch with the attempts++ forgotten
FetchFail_NoAttemptsIncrement(r, i, kind, budget) ==
  LET res == HandleErrorResult(DefaultStrategies, kind, FALSE,
                               task[r][i].attempts)
  IN /\ task[r][i].pc = "fetch"
     /\ ~aborted[r]
     /\ env.failures < budget
     /\ env' = [env EXCEPT !.failures = @ + 1]
     /\ IF res.shouldRetry
        THEN /\ task' = [task EXCEPT ![r][i] =
                  [@ EXCEPT !.pc = "retryDelay",
                            !.delays = Append(@, res.retryDelay),
                            !.kinds = @ \cup {kind}]]
             /\ UNCHANGED << run, uploadPromises, abortControllers >>
        ELSE ThrowAfter(r, i, {kind})
     /\ UNCHANGED << fileSize, heap, memoryStates, storage, chunkStore, numRuns,
                     aborted, ctl, posts, acked, cb, hist >>
     /\ UNCHANGED otherVars

\* the POST failed (network error or a response that is not ok) with the
\* signal not aborted, the environment having let fewer than budget POSTs
\* fail: handleError decides between the retry delay (attempts++, setTimeout
\* of retryDelay) and a throw
FetchFail(r, i, kind, budget) ==
  LET res == HandleErrorResult(DefaultStrategies, kind, FALSE,
                               task[r][i].attempts)
  IN /\ task[r][i].pc = "fetch"
     /\ ~aborted[r]
     /\ env.failures < budget
     /\ env' = [env EXCEPT !.failures = @ + 1]
     /\ IF res.shouldRetry
        THEN /\ task' = [task EXCEPT ![r][i] =
                  [@ EXCEPT !.pc = "retryDelay", !.attempts = @ + 1,
                            !.delays = Append(@, res.retryDelay),
                            !.kinds = @ \cup {kind}]]
             /\ UNCHANGED << run, uploadPromises, abortControllers >>
        ELSE ThrowAfter(r, i, {kind})
     /\ UNCHANGED << fileSize, heap, memoryStates, storage, chunkStore, numRuns,
                     aborted, ctl, posts, acked, cb, hist >>
     /\ UNCHANGED otherVars

\* a failing POST among pause, cancel and resume
TaskFetchFail(r, i, kind) == FetchFail(r, i, kind, MaxFailures)

\* a POST failing with a network error, as often as the retries go
TaskFetchFailNetwork(r, i) == FetchFail(r, i, "network", MaxNetworkFailures)

\* a POST failing with an error of any kind
TaskFetchFailKind(r, i, kind) == FetchFail(r, i, kind, MaxKindFailures)

\* the signal was aborted while the POST was in flight: fetch rejects and
\* uploadChunkWithRetry rethrows (signal.aborted)
TaskFetchAborted(r, i) ==
  /\ task[r][i].pc = "fetch"
  /\ aborted[r]
  /\ Throw(r, i)
  /\ UNCHANGED << fileSize, heap, memoryStates, storage, chunkStore, numRuns, aborted, ctl,
                  posts, acked, cb, env, hist >>
  /\ UNCHANGED otherVars

\* the retry delay has elapsed: next turn of the loop
TaskRetryTimer(r, i) ==
  /\ task[r][i].pc = "retryDelay"
  /\ task' = [task EXCEPT ![r][i] = [@ EXCEPT !.pc = "start"]]
  /\ UNCHANGED << fileSize, heap, memoryStates, storage, chunkStore, abortControllers,
                  uploadPromises, numRuns, run, aborted, ctl, posts, acked, cb,
                  env, hist >>
  /\ UNCHANGED otherVars

\* ------------------------- ResumableUploadManager: pause, cancel, resume

\* pauseUpload resolves; for cancelUpload, removeState follows at once:
\* memoryStates.delete, storage.remove.  h, mem, sto as produced so far.
PauseResolved(op, live, runs, h, mem, sto) ==
  /\ heap' = h
  /\ IF op = "cancel"
     THEN /\ memoryStates' = 0
          /\ storage' = Null
          /\ ctl' = [IdleCtl EXCEPT !.op = "cancel", !.pc = "remove",
                                    !.runs = runs]
          /\ UNCHANGED hist
     ELSE /\ memoryStates' = mem
          /\ storage' = sto
          /\ ctl' = IdleCtl
          /\ hist' = [hist EXCEPT !.pausedHold = live /\ runs = numRuns]

\* pauseUpload(fileId) or cancelUpload(fileId) is called
PauseCall(op) ==
  /\ ctl.pc = "idle"
  /\ env.ctl < MaxCtl
  /\ env' = [env EXCEPT !.ctl = @ + 1]
  /\ IF abortControllers = 0
     THEN \* no controller: pauseUpload does nothing
          /\ PauseResolved(op, FALSE, numRuns, heap, memoryStates, storage)
          /\ UNCHANGED aborted
     ELSE /\ aborted' = [aborted EXCEPT ![abortControllers] = TRUE]
          /\ hist' = [hist EXCEPT !.tokenAborted = TRUE, !.pausedHold = FALSE]
          /\ IF memoryStates # 0
             THEN LET h == [heap EXCEPT ![memoryStates] =
                              [@ EXCEPT !.status = "paused"]]
                  IN /\ heap' = h
                     /\ storage' = h[memoryStates]
                     /\ ctl' = [IdleCtl EXCEPT !.op = op, !.pc = "save",
                                               !.live = TRUE, !.runs = numRuns]
                     /\ UNCHANGED memoryStates
             ELSE /\ ctl' = [IdleCtl EXCEPT !.op = op, !.pc = "get",
                                            !.got = storage, !.live = TRUE,
                                            !.runs = numRuns]
                  /\ UNCHANGED << fileSize, heap, memoryStates, storage >>
  /\ UNCHANGED << fileSize, chunkStore, abortControllers, uploadPromises, numRuns, run,
                  task, posts, acked, cb >>
  /\ UNCHANGED otherVars

\* pauseUpload: getState resumes after storage.get
PauseGet ==
  /\ ctl.pc = "get"
  /\ IF ctl.got # Null
     THEN LET h == Append(heap, [ctl.got EXCEPT !.status = "paused"])
          IN /\ heap' = h
             /\ memoryStates' = Len(h)
             /\ storage' = h[Len(h)]
             /\ ctl' = [ctl EXCEPT !.pc = "save", !.got = Null]
             /\ UNCHANGED hist
     ELSE PauseResolved(ctl.op, ctl.live, ctl.runs, heap, memoryStates, storage)
  /\ UNCHANGED << fileSize, chunkStore, abortControllers, uploadPromises, numRuns, run,
                  task, aborted, posts, acked, cb, env >>
  /\ UNCHANGED otherVars

\* pauseUpload: the save of status = paused has resolved
PauseSave ==
  /\ ctl.pc = "save"
  /\ PauseResolved(ctl.op, ctl.live, ctl.runs, heap, memoryStates, storage)
  /\ UNCHANGED << fileSize, chunkStore, abortControllers, uploadPromises, numRuns, run,
                  task, aborted, posts, acked, cb, env >>
  /\ UNCHANGED otherVars

\* cancelUpload: removeState has resolved, cancelUpload resolves
CancelRemove ==
  /\ ctl.pc = "remove"
  /\ ctl' = IdleCtl
  /\ hist' = [hist EXCEPT !.cancelledHold = (ctl.runs = numRuns),
                          !.pausedHold = FALSE]
  /\ UNCHANGED << fileSize, heap, memoryStates, storage, chunkStore, abortControllers,
                  uploadPromises, numRuns, run, task, aborted, posts, acked, cb,
                  env >>
  /\ UNCHANGED otherVars

\* resumeUpload past canResume, which saw state s: 'Upload cannot be resumed',
\* or startUpload: 'Upload already in progress' or a new run
ResumeDecide(s, afterPause, mem, sto) ==
  LET outcome == IF ~CanResume(s) THEN "cannotResume"
                 ELSE IF uploadPromises # 0 THEN "inProgress"
                 ELSE "accepted"
  IN /\ IF outcome = "accepted"
        THEN Accept("resume", mem, sto)
        ELSE UNCHANGED << numRuns, abortControllers, uploadPromises, run >>
     /\ hist' = [hist EXCEPT
          !.pausedHold = FALSE,
          !.resumeAfterPause = IF afterPause THEN outcome ELSE @,
          !.cancelledHold = IF outcome = "accepted" THEN FALSE ELSE @,
          !.tokenAborted = IF outcome = "accepted" THEN FALSE ELSE @,
          !.afterCrash = IF hist.crashed /\ @ = 0 /\ outcome = "accepted"
                         THEN numRuns + 1 ELSE @]

\* resumeUpload(fileItem, endpoint, onProgress) is called
ResumeCall ==
  /\ ctl.pc = "idle"
  /\ env.ctl < MaxCtl
  /\ numRuns < MaxRuns
  /\ env' = [env EXCEPT !.ctl = @ + 1]
  /\ IF memoryStates # 0
     THEN /\ ResumeDecide(heap[memoryStates], hist.pausedHold, memoryStates,
                          storage)
          /\ UNCHANGED ctl
     ELSE /\ ctl' = [IdleCtl EXCEPT !.op = "resume", !.pc = "resGet",
                                    !.got = storage,
                                    !.afterPause = hist.pausedHold]
          /\ hist' = [hist EXCEPT !.pausedHold = FALSE]
          /\ UNCHANGED << numRuns, abortControllers, uploadPromises, run >>
  /\ UNCHANGED << fileSize, heap, memoryStates, storage, chunkStore, task, aborted, posts,
                  acked, cb >>
  /\ UNCHANGED otherVars

\* canResume: getState resumes after storage.get
ResumeGet ==
  /\ ctl.pc = "resGet"
  /\ numRuns < MaxRuns
  /\ ctl' = IdleCtl
  /\ IF ctl.got # Null
     THEN /\ heap' = Append(heap, ctl.got)
          /\ memoryStates' = Len(heap) + 1
          /\ ResumeDecide(ctl.got, ctl.afterPause, Len(heap) + 1, storage)
     ELSE /\ ResumeDecide(Null, ctl.afterPause, memoryStates, storage)
          /\ UNCHANGED << fileSize, heap, memoryStates >>
  /\ UNCHANGED << fileSize, storage, chunkStore, task, aborted, posts, acked, cb, env >>
  /\ UNCHANGED otherVars

\* ------------------------------------------------------------ environment

\* the autosave timer: saveAllStates saves every entry of memoryStates
AutoSave ==
  /\ memoryStates # 0
  /\ storage' = heap[memoryStates]
  /\ UNCHANGED << fileSize, heap, memoryStates, chunkStore, abortControllers,
                  uploadPromises, numRuns, run, task, aborted, ctl, posts, acked,
                  cb, env, hist >>
  /\ UNCHANGED otherVars

\* the process dies: only the backend survives
Crash ==
  /\ env.crashes < MaxCrashes
  /\ env' = [env EXCEPT !.crashes = @ + 1]
  /\ heap' = << >>
  /\ memoryStates' = 0
  /\ abortControllers' = 0
  /\ uploadPromises' = 0
  /\ run' = [r \in Runs |->
       IF run[r].pc \in {"none", "resolved", "rejected", "crashed"}
       THEN [run[r] EXCEPT !.state = 0, !.got = Null]
       ELSE [run[r] EXCEPT !.pc = "crashed", !.state = 0, !.got = Null]]
  /\ task' = [r \in Runs |-> [i \in ChunkIdx |->
       IF task[r][i].pc \in {"none", "done", "failed"} THEN task[r][i]
       ELSE [NoTask EXCEPT !.pc = "failed"]]]
  /\ ctl' = IdleCtl
  /\ hist' = [hist EXCEPT !.crashed = storage # Null,
                          !.crashU = Uploaded(storage),
                          !.afterCrash = 0]
  /\ UNCHANGED << fileSize, storage, chunkStore, numRuns, aborted, posts, acked, cb >>
  /\ UNCHANGED otherVars

\* ----------------------------------------------------------- ErrorManager

\* handleError(error, context): the decision it returns, kept with its
\* inputs, the strategy it consulted, the severity of the report it built and
\* the number of times it handed the report to the subscribers
EmHandleError(type, skipMatch, retryCount, isRecoverable) ==
  LET res == HandleErrorResult(em.retryStrategies, type, skipMatch, retryCount)
  IN /\ em' = [em EXCEPT !.last =
                 [called |-> TRUE, type |-> type, skipMatch |-> skipMatch,
                  retryCount |-> retryCount,
                  isRecoverable |-> isRecoverable,
                  strategy |-> em.retryStrategies[type],
                  severity |->
                    AssessSeverity(type, retryCount, isRecoverable),
                  notified |->
                    NotifyErrorCalls(em.retryStrategies, type, skipMatch),
                  shouldRetry |-> res.shouldRetry,
                  retryDelay |-> res.retryDelay]]
     /\ UNCHANGED exceptEm

\* addRetryStrategy(type, strategy)
EmAddRetryStrategy(type, s) ==
  /\ em.edits < MaxStrategyEdits
  /\ em' = [em EXCEPT !.retryStrategies[type] = s, !.edits = @ + 1]
  /\ UNCHANGED exceptEm

\* removeRetryStrategy(type)
EmRemoveRetryStrategy(type) ==
  /\ em.edits < MaxStrategyEdits
  /\ em' = [em EXCEPT !.retryStrategies[type] = NoStrategy, !.edits = @ + 1]
  /\ UNCHANGED exceptEm

\* one file uploaded while POSTs fail with network errors and are retried
NextRetry ==
  \/ StartUpload
  \/ \E r \in Runs :
        \/ RunGetState(r)
        \/ RunInitChecksum(r)
        \/ RunCreateChunks(r)
        \/ RunSaveTotal(r)
        \/ RunSaveCompleted(r)
  \/ \E r \in Runs : \E i \in ChunkIdx :
        \/ TaskPost(r, i)
        \/ TaskFetchOk(r, i)
        \/ \E emit \in BOOLEAN : TaskUpSave(r, i, emit)
        \/ TaskFetchFailNetwork(r, i)
        \/ TaskRetryTimer(r, i)

SpecRetry == Init /\ [][NextRetry]_vars

\* a file of one chunk uploaded while its POSTs fail with errors of every kind
NextRetryKinds ==
  \/ StartUpload
  \/ \E r \in Runs :
        \/ RunGetState(r)
        \/ RunInitChecksum(r)
        \/ RunCreateChunks(r)
        \/ RunSaveTotal(r)
        \/ RunSaveCompleted(r)
  \/ \E r \in Runs : \E i \in ChunkIdx :
        \/ TaskPost(r, i)
        \/ TaskFetchOk(r, i)
        \/ \E emit \in BOOLEAN : TaskUpSave(r, i, emit)
        \/ \E kind \in ErrorTypes : TaskFetchFailKind(r, i, kind)
        \/ TaskRetryTimer(r, i)

\* the file is one chunk long
InitOneChunk == InitWith(ChunkSize)

SpecRetryKinds == InitOneChunk /\ [][NextRetryKinds]_vars

\* the ErrorManager alone, called with errors of every type whose context
\* leaves isRecoverable out
NextErrors ==
  \/ \E type \in ErrorTypes : \E skipMatch \in BOOLEAN :
       \E retryCount \in 0 .. MaxRetryCount :
         EmHandleError(type, skipMatch, retryCount, "undefined")
  \/ \E type \in ErrorTypes : \E s \in CustomStrategies :
       EmAddRetryStrategy(type, s)
  \/ \E type \in ErrorTypes : EmRemoveRetryStrategy(type)

SpecErrors == Init /\ [][NextErrors]_vars

\* the ErrorManager with its default strategies, called with contexts of
\* every isRecoverable
NextSeverity ==
  \E type \in ErrorTypes : \E skipMatch \in BOOLEAN :
    \E retryCount \in 0 .. MaxRetryCount :
      \E isRecoverable \in Recoverable :
        EmHandleError(type, skipMatch, retryCount, isRecoverable)

SpecSeverity == Init /\ [][NextSeverity]_vars

\* -------------------------------------------------------- SecurityManager

\* checkRateLimit(userId) at the present time; admissions is the history of
\* the times of the calls that returned true
SecCheckRateLimit ==
  LET res == CheckRateLimitResult(sec)
  IN /\ sec.checks < MaxChecks
     /\ sec' = [sec EXCEPT
                  !.requests = res.requests,
                  !.concurrentUploads = res.concurrentUploads,
                  !.checks = @ + 1,
                  !.admissions = IF res.ok THEN Append(@, sec.now) ELSE @,
                  !.lastCheck = [called |-> TRUE, at |-> sec.now,
                                 admitted |-> res.ok]]
     /\ UNCHANGED exceptSec

\* releaseRateLimit(userId)
SecReleaseRateLimit ==
  /\ sec.concurrentUploads > 0
  /\ sec' = [sec EXCEPT !.concurrentUploads = ReleasedUploads(@)]
  /\ UNCHANGED exceptSec

\* Date.now() advances by d milliseconds
SecTick(d) ==
  /\ sec.ticks < MaxTicks
  /\ sec' = [sec EXCEPT !.now = @ + d, !.ticks = @ + 1]
  /\ UNCHANGED exceptSec

\* generateAccessToken(userId): the token is `userId:uuid:Date.now()`, here
\* its number and its time; activeTokens is in insertion order, issued is
\* the time in each token returned so far, removed tells which tokens were
\* evicted by the cap or revoked
SecGenerateAccessToken ==
  LET id == Len(sec.issued) + 1
      evict == Len(sec.activeTokens) >= maxTokensPerUser
      kept == IF evict THEN Tail(sec.activeTokens) ELSE sec.activeTokens
  IN /\ Len(sec.issued) < MaxTokens
     /\ sec' = [sec EXCEPT
                  !.activeTokens = Append(kept, [id |-> id, issued |-> sec.now]),
                  !.timers = @ \cup {[id |-> id,
                                      at |-> sec.now + ExpiryTimerDelay(tokenExpiration)]},
                  !.issued = Append(@, sec.now),
                  !.removed = IF evict
                                THEN [@ EXCEPT ![sec.activeTokens[1].id] = "evicted"]
                                ELSE @]
     /\ UNCHANGED exceptSec

\* the callback of the setTimeout of generateAccessToken, not before its time
SecExpiryTimer(id) ==
  LET due == {tm \in sec.timers : tm.id = id /\ sec.now >= tm.at}
  IN /\ due # {}
     /\ sec' = [sec EXCEPT !.timers = @ \ due,
                            !.activeTokens = WithoutToken(@, id)]
     /\ UNCHANGED exceptSec

\* validateAccessToken(token) with a token generateAccessToken returned
SecValidateAccessToken(id) ==
  LET res == ValidateAccessTokenResult(sec, id)
  IN /\ id \in DOMAIN sec.issued
     /\ sec' = [sec EXCEPT
                  !.activeTokens = res.activeTokens,
                  !.lastValidate = [called |-> TRUE, id |-> id, at |-> sec.now,
                                    issued |-> sec.issued[id],
                                    removed |-> sec.removed[id],
                                    accepted |-> res.ok]]
     /\ UNCHANGED exceptSec

\* revokeAccessToken(token)
SecRevokeAccessToken(id) ==
  /\ id \in DOMAIN sec.issued
  /\ sec.removed[id] = "no"
  /\ sec' = [sec EXCEPT !.activeTokens = WithoutToken(@, id),
                         !.removed[id] = "revoked"]
  /\ UNCHANGED exceptSec

\* the advances of the clock around a token's life
TokenTicks == {1, MsPerSecond}

\* the access tokens of one user while time passes
NextTokens ==
  \/ SecGenerateAccessToken
  \/ \E id \in Tokens : SecExpiryTimer(id)
  \/ \E id \in Tokens : SecValidateAccessToken(id)
  \/ \E id \in Tokens : SecRevokeAccessToken(id)
  \/ \E d \in TokenTicks : SecTick(d)

SpecTokens == Init /\ [][NextTokens]_vars

\* the advances of the clock around the rate limiter's window
RateTicks == {MsPerSecond, WindowMs - MsPerSecond}

\* the rate limiter of one user, called and released while time passes
NextRateLimit ==
  \/ SecCheckRateLimit
  \/ SecReleaseRateLimit
  \/ \E d \in RateTicks : SecTick(d)

SpecRateLimit == Init /\ [][NextRateLimit]_vars

\* ---------------------------------------------------- StreamUploadManager
\* One user starts files of StreamChunks chunks. The chunks of a call pass
\* the pipe one after the other: transform (workers), then write (POST).
\* The settling of a call (catch, finally) awaits nothing but
\* releaseStreamResources, which does no I/O, and is one step.

\* startStreaming resolves: status completed, then finally
Resolve(c, s) ==
  /\ stream' = [stream EXCEPT ![c] = [Finally(s) EXCEPT !.pc = "resolved"]]
  /\ sec' = [sec EXCEPT !.concurrentUploads = ReleaseTimes(@, 1)]

\* startStreaming rejects from inside its try block: the catch block marks
\* the state and calls releaseRateLimit, finally calls it again
RejectWith(c, s, tokens) ==
  /\ stream' = [stream EXCEPT ![c] = [Finally(s) EXCEPT !.pc = "rejected"]]
  /\ sec' = [sec EXCEPT !.concurrentUploads = ReleaseTimes(@, 2),
                         !.activeTokens = tokens]

Reject(c, s) == RejectWith(c, s, sec.activeTokens)

\* startStreaming(file, endpoint, {userId, accessToken}) up to the await of
\* validateFile; accessToken is the token with number id, or a string that
\* was never returned
StartStreaming(c, id) ==
  LET tok == ValidateAccessTokenResult(sec, id)
      rate == CheckRateLimitResult(sec)
      s == stream[c]
  IN /\ s.pc = "idle"
     /\ IF c = 1 THEN TRUE ELSE stream[c - 1].pc # "idle"
     /\ IF ~tok.ok
          THEN RejectWith(c, [s EXCEPT !.tokenOk = "failed"], tok.activeTokens)
        ELSE IF ~rate.ok
          THEN /\ stream' = [stream EXCEPT ![c] =
                    [Finally(s) EXCEPT !.pc = "rejected", !.tokenOk = "ok",
                                       !.rateOk = "failed"]]
               /\ sec' = [sec EXCEPT
                     !.requests = rate.requests,
                     !.concurrentUploads = ReleaseTimes(rate.concurrentUploads, 2)]
        ELSE /\ stream' = [stream EXCEPT ![c] =
                    [s EXCEPT !.pc = "validateFile", !.tokenOk = "ok",
                              !.rateOk = "ok"]]
             /\ sec' = [sec EXCEPT
                   !.requests = rate.requests,
                   !.concurrentUploads = rate.concurrentUploads]
     /\ UNCHANGED exceptStream

\* validateFile answered, the answer ignored
StreamFileValidated_IgnoresResult(c, ok) ==
  LET s == stream[c]
  IN /\ s.pc = "validateFile"
     /\ stream' = [stream EXCEPT ![c] =
            [s EXCEPT !.pc = "generateKey",
                      !.fileOk = IF ok THEN "ok" ELSE "failed"]]
     /\ UNCHANGED << sec, exceptStream >>

\* validateFile answered: isValid false throws, else generateEncryptionKey
\* is awaited (encryption enabled, as by default)
StreamFileValidated(c, ok) ==
  LET s == stream[c]
  IN /\ s.pc = "validateFile"
     /\ IF ok
          THEN /\ stream' = [stream EXCEPT ![c] =
                      [s EXCEPT !.pc = "generateKey", !.fileOk = "ok"]]
               /\ UNCHANGED sec
          ELSE Reject(c, [s EXCEPT !.fileOk = "failed"])
     /\ UNCHANGED exceptStream

\* generateEncryptionKey settled: the key, the controller and the state are
\* stored, the pipe starts and the first chunk is pulled
StreamKeyGenerated(c, ok) ==
  LET s == stream[c]
  IN /\ s.pc = "generateKey"
     /\ IF ok
          THEN /\ stream' = [stream EXCEPT ![c] =
                      [s EXCEPT !.pc = "transform", !.key = TRUE,
                                !.controller = TRUE, !.state = "streaming"]]
               /\ UNCHANGED sec
          ELSE Reject(c, s)
     /\ UNCHANGED exceptStream

\* the workers answered for the chunk in the transform: an invalid chunk or
\* a failed task errors the pipe; else the progress is updated if the state
\* is still there, and write issues the POST, which an aborted signal
\* rejects before any request is made
StreamTransformed(c, ok) ==
  LET s == stream[c]
      t == IF s.state = "none" THEN s
           ELSE [s EXCEPT !.bytesProcessed = @ + 1,
                          !.reported = s.bytesProcessed + 1]
  IN /\ s.pc = "transform"
     /\ IF ok /\ ~s.aborted
          THEN /\ stream' = [stream EXCEPT ![c] =
                      [t EXCEPT !.pc = "post", !.posts = @ + 1]]
               /\ UNCHANGED sec
          ELSE Reject(c, IF ok THEN t ELSE s)
     /\ UNCHANGED exceptStream

\* the POST of the chunk returned 2xx: the next chunk is pulled, or the
\* source closes and the pipe completes with a last onProgress of totalSize
StreamPostOk(c) ==
  LET s == stream[c]
  IN /\ s.pc = "post"
     /\ ~s.aborted
     /\ IF s.offset + 1 >= StreamChunks
          THEN Resolve(c, [s EXCEPT !.offset = @ + 1,
                                    !.state = IF @ = "none" THEN @ ELSE "completed",
                                    !.reported = IF s.state = "none" THEN @
                                                 ELSE StreamChunks])
          ELSE /\ stream' = [stream EXCEPT ![c] =
                      [s EXCEPT !.pc = "transform", !.offset = @ + 1]]
               /\ UNCHANGED sec
     /\ UNCHANGED exceptStream

\* the POST failed: no 2xx, a network error, or the abort of its signal
StreamPostFail(c) ==
  LET s == stream[c]
  IN /\ s.pc = "post"
     /\ Reject(c, s)
     /\ UNCHANGED exceptStream

\* abortStream(fileId) while the controller is registered
AbortStream(c) ==
  LET s == stream[c]
  IN /\ s.controller
     /\ stream' = [stream EXCEPT ![c] =
            ReleaseStreamResources([s EXCEPT !.aborted = TRUE])]
     /\ UNCHANGED << sec, exceptStream >>

\* one user's startStreaming calls with tokens that are valid or not
NextStream ==
  \/ SecGenerateAccessToken
  \/ \E c \in Calls : \E id \in Tokens : StartStreaming(c, id)
  \/ \E c \in Calls : \E ok \in BOOLEAN : StreamFileValidated(c, ok)
  \/ \E c \in Calls : \E ok \in BOOLEAN : StreamKeyGenerated(c, ok)
  \/ \E c \in Calls : \E ok \in BOOLEAN : StreamTransformed(c, ok)
  \/ \E c \in Calls : StreamPostOk(c)
  \/ \E c \in Calls : StreamPostFail(c)
  \/ \E c \in Calls : AbortStream(c)

SpecStream == Init /\ [][NextStream]_vars

\* ----------------------------------------------------------- QueueManager

\* one more call of the QueueManager
QueueOp(q) ==
  /\ queue.ops < MaxQueueOps
  /\ queue' = [q EXCEPT !.ops = queue.ops + 1]
  /\ UNCHANGED exceptQueue

\* addToQueue(fileId, priority), elapsed milliseconds after the call before
\* it; startTime is Date.now() at the call
QAddToQueue(fileId, priority, elapsed) ==
  /\ queue.adds < MaxAdds
  /\ QueueOp([queue EXCEPT
        !.queue = SortQueue(Append(@, [fileId |-> fileId, priority |-> priority,
                                       status |-> "queued", retryAttempts |-> 0,
                                       startTime |-> queue.now + elapsed])),
        !.now = @ + elapsed,
        !.adds = @ + 1])

\* getNext(); returned is the fileId of the item, 0 for null
QGetNext ==
  LET n == FindQueued(queue.queue)
      before == Cardinality(Uploading(queue.queue))
  IN IF queue.activeUploads >= maxConcurrent \/ n = 0
       THEN QueueOp([queue EXCEPT !.lastNext =
              [called |-> TRUE, uploadingBefore |-> before, returned |-> 0]])
       ELSE QueueOp([queue EXCEPT
              !.queue[n].status = "uploading",
              !.activeUploads = @ + 1,
              !.lastNext = [called |-> TRUE, uploadingBefore |-> before,
                            returned |-> queue.queue[n].fileId]])

\* completeItem(fileId)
QCompleteItem(fileId) ==
  LET n == FindIndex(queue.queue, fileId)
  IN /\ n # 0
     /\ QueueOp([queue EXCEPT !.queue[n].status = "completed",
                               !.activeUploads = @ - 1])

\* failItem(fileId)
QFailItem(fileId) ==
  LET n == FindIndex(queue.queue, fileId)
  IN /\ n # 0
     /\ QueueOp([queue EXCEPT
           !.queue = SortQueue([@ EXCEPT ![n].status = "error",
                                         ![n].retryAttempts = @ + 1]),
           !.activeUploads = @ - 1])

\* retryItem(fileId)
QRetryItem(fileId) ==
  LET n == FindIndex(queue.queue, fileId)
  IN /\ n # 0
     /\ QueueOp([queue EXCEPT
           !.queue = SortQueue([@ EXCEPT ![n].status = "queued"])])

\* removeItem(fileId)
QRemoveItem(fileId) ==
  LET n == FindIndex(queue.queue, fileId)
      q == queue.queue
  IN /\ n # 0
     /\ QueueOp([queue EXCEPT
           !.queue = SubSeq(q, 1, n - 1) \o SubSeq(q, n + 1, Len(q)),
           !.activeUploads = IF q[n].status = "uploading" THEN @ - 1 ELSE @])

\* the QueueManager called in any order
NextQueue ==
  \/ \E fileId \in Files : \E priority \in 0 .. MaxPriority :
       \E elapsed \in 0 .. 1 : QAddToQueue(fileId, priority, elapsed)
  \/ QGetNext
  \/ \E fileId \in Files : QCompleteItem(fileId)
  \/ \E fileId \in Files : QFailItem(fileId)
  \/ \E fileId \in Files : QRetryItem(fileId)
  \/ \E fileId \in Files : QRemoveItem(fileId)

SpecQueue == Init /\ [][NextQueue]_vars

\* --------------------------------------------------------------- chunking

\* one turn of the while loop of createSizeBasedChunks, up to the await of
\* processChunk (a Blob chunk is always valid): chunk index covers
\* [start, end) and carries total
ChunkerIterate ==
  LET end == SliceEnd(chunker.start, chunker.chunkSize, chunker.size)
  IN /\ ~chunker.returned
     /\ chunker.start < chunker.size
     /\ chunker' = [chunker EXCEPT
           !.chunks = Append(@, [index |-> chunker.index,
                                 total |-> chunker.totalChunks,
                                 start |-> chunker.start, end |-> end]),
           !.start = end,
           !.index = @ + 1]
     /\ UNCHANGED exceptChunker

\* the loop condition fails: return chunks
ChunkerReturn ==
  /\ ~chunker.returned
  /\ ~(chunker.start < chunker.size)
  /\ chunker' = [chunker EXCEPT !.returned = TRUE]
  /\ UNCHANGED exceptChunker

\* pull(controller) of createReadableStream with the signal not aborted:
\* the source closes at the end of the file, else enqueues the chunk
\* file.slice(offset, offset + chunkSize) with its offset, size and index
ChunkerPull ==
  LET end == SliceEnd(chunker.offset, chunker.chunkSize, chunker.size)
      next == chunker.offset + chunker.chunkSize
  IN /\ ~chunker.closed
     /\ IF chunker.offset >= chunker.size
          THEN chunker' = [chunker EXCEPT !.closed = TRUE]
          ELSE chunker' = [chunker EXCEPT
                 !.streamed = Append(@,
                    [index |-> (next - chunker.chunkSize) \div chunker.chunkSize,
                     start |-> next - chunker.chunkSize,
                     end |-> end]),
                 !.offset = next]
     /\ UNCHANGED exceptChunker

\* size-mode chunking of every file size and chunk size of the model
InitChunking ==
  /\ RumInit(FileSize)
  /\ ComponentsInit
  /\ \E size \in 0 .. MaxChunkedSize : \E chunkSize \in 1 .. MaxChunkSize :
       chunker = ChunkerInit(size, chunkSize)

NextChunking ==
  \/ ChunkerIterate
  \/ ChunkerReturn
  \/ ChunkerPull

SpecChunking == InitChunking /\ [][NextChunking]_vars

\* ---------------------------------------------------------- WorkerManager
\* Uncaught errors of a worker (worker.onerror) are left out: the worker
\* code catches every error of a task and posts it as a message.

\* addTask(type, chunk)
WmAddTask(t) ==
  /\ ~wm.disposed
  /\ wm.tasks[t].promise = "none"
  /\ IF t = 1 THEN TRUE ELSE wm.tasks[t - 1].promise # "none"
  /\ wm' = ProcessNextTask(
        [wm EXCEPT !.tasks[t].promise = "pending",
                   !.taskQueue = Append(@, t)])
  /\ UNCHANGED exceptWm

\* worker w posts its answer to the oldest message it has: handleWorkerMessage
\* looks the task up by the worker, not by the taskId of the message
WmWorkerMessage(w, type) ==
  LET t == wm.activeWorkers[w]
      m == [wm EXCEPT !.inbox[w] = Tail(@)]
      handled ==
        IF type = "error"
          THEN IF m.tasks[t].attempts < retryAttempts
                 THEN [m EXCEPT !.tasks[t].attempts = @ + 1,
                                !.taskQueue = << t >> \o @]
                 ELSE RejectTask(m, t)
          ELSE ResolveTask(m, t)
  IN /\ wm.inbox[w] # << >>
     /\ wm' = IF t = 0 THEN m
              ELSE ProcessNextTask([handled EXCEPT !.activeWorkers[w] = 0])
     /\ UNCHANGED exceptWm

\* the setTimeout of dispatch d fires (the timers have the same delay and
\* fire in the order of the dispatches): a race promise that is still
\* pending rejects and the catch of processNextTask runs
WmTimeout(d) ==
  LET disp == wm.dispatches[d]
      m == [wm EXCEPT !.dispatches[d].timer = "fired",
                      !.dispatches[d].race = Settle(@, "rejected")]
  IN /\ d \in DOMAIN wm.dispatches
     /\ disp.timer = "armed"
     /\ \A b \in 1 .. (d - 1) : wm.dispatches[b].timer = "fired"
     /\ wm' = IF disp.race # "pending" THEN m
              ELSE ProcessNextTask(
                     [RejectTask(m, disp.task) EXCEPT !.activeWorkers[disp.worker] = 0])
     /\ UNCHANGED exceptWm

\* dispose(): the workers are terminated and post nothing more
WmDispose ==
  /\ ~wm.disposed
  /\ wm' = [wm EXCEPT !.disposed = TRUE,
                       !.taskQueue = << >>,
                       !.activeWorkers = [w \in Workers |-> 0],
                       !.inbox = [w \in Workers |-> << >>]]
  /\ UNCHANGED exceptWm

\* dispatches of one behaviour: each task is queued once by addTask and
\* once per retry
Dispatches == 1 .. (MaxTasks * (retryAttempts + 1))

NextWorkers ==
  \/ \E t \in Tasks : WmAddTask(t)
  \/ \E w \in Workers : \E type \in {"success", "error"} : WmWorkerMessage(w, type)
  \/ \E d \in Dispatches : WmTimeout(d)
  \/ WmDispose

SpecWorkers == Init /\ [][NextWorkers]_vars

\* the timers fire and the workers answer
SpecWorkersFair ==
  /\ SpecWorkers
  /\ WF_vars(\E d \in Dispatches : WmTimeout(d))
  /\ WF_vars(\E w \in Workers : \E type \in {"success", "error"} :
               WmWorkerMessage(w, type))

\* ---------------------------------------------------------- MemoryManager

Max(a, b) == IF a > b THEN a ELSE b

\* handleResourceCleanup(id) without the test of the entry of resourceStats
HandleResourceCleanup_Unguarded(m, id) ==
  [m EXCEPT !.totalAllocated = @ - m.res[id].size,
            !.activeResources = @ - 1,
            !.res[id].hasStats = FALSE,
            !.res[id].cleanups = @ + 1]

\* handleResourceCleanup(id)
HandleResourceCleanup(m, id) ==
  IF m.res[id].hasStats
    THEN [m EXCEPT !.totalAllocated = @ - m.res[id].size,
                   !.activeResources = @ - 1,
                   !.res[id].hasStats = FALSE,
                   !.res[id].cleanups = @ + 1]
    ELSE [m EXCEPT !.res[id].cleanups = @ + 1]

\* checkMemoryUsage: the level it calls forceCleanup with
CleanupLevel(currentMemory) ==
  IF currentMemory * 100 > maxMemoryUsage * CriticalPercent THEN "critical"
  ELSE IF currentMemory * 100 > maxMemoryUsage * WarningPercent THEN "warning"
  ELSE "none"

\* what follows the forceCleanup call: checkMemoryUsage raises the peak to
\* the total it read at its start, cleanup() returns
AfterCleanup(m) ==
  [m EXCEPT !.peakMemoryUsage =
              IF m.cleanup.caller = "check"
                THEN Max(@, m.cleanup.currentMemory) ELSE @,
            !.cleanup = NoCleanup]

\* the loop of forceCleanup over the entries of resources from id on, in the
\* order of insertion, up to the next await of a dispose() or to its end
RECURSIVE Sweep(_, _)
Sweep(m, id) ==
  IF id >= m.nextId THEN AfterCleanup(m)
  ELSE IF ~m.res[id].inResources THEN Sweep(m, id + 1)
  ELSE IF m.res[id].target # "alive"
    THEN Sweep([m EXCEPT !.res[id].inResources = FALSE], id + 1)
  ELSE IF m.cleanup.level = "critical" /\ m.res[id].disposable
    THEN [m EXCEPT !.cleanup.pc = "disposing", !.cleanup.cursor = id]
  ELSE Sweep(m, id + 1)

\* forceCleanup(level) from its start: the callbacks, then the loop
ForceCleanup(m, caller, level, currentMemory) ==
  Sweep([m EXCEPT !.lastLevel = level,
                  !.cleanup = [pc |-> "sweeping", caller |-> caller,
                               level |-> level,
                               currentMemory |-> currentMemory,
                               cursor |-> 0]], 1)

\* trackResource(resource, type, {size})
MmTrackResource(size, disposable) ==
  /\ mm.nextId <= MaxResources
  /\ mm' = [mm EXCEPT
             !.res[mm.nextId] =
               [inResources |-> TRUE, target |-> "alive",
                disposable |-> disposable, disposed |-> FALSE,
                hasStats |-> TRUE, size |-> size, release |-> 0,
                cleanups |-> 0],
             !.nextId = @ + 1,
             !.totalAllocated = @ + size,
             !.activeResources = @ + 1]
  /\ UNCHANGED exceptMm

\* the interval timer: checkMemoryUsage() up to its first await of a
\* dispose(), or to its end
MmCheckMemoryUsage ==
  /\ ~mm.disposed
  /\ mm.cleanup.pc = "idle"
  /\ LET currentMemory == mm.totalAllocated
         level == CleanupLevel(currentMemory)
     IN mm' = IF level = "none"
                THEN [mm EXCEPT !.peakMemoryUsage = Max(@, currentMemory)]
                ELSE ForceCleanup(mm, "check", level, currentMemory)
  /\ UNCHANGED exceptMm

\* cleanup(): forceCleanup('critical')
MmCleanup ==
  /\ mm.cleanup.pc = "idle"
  /\ mm' = ForceCleanup(mm, "cleanup", "critical", 0)
  /\ UNCHANGED exceptMm

\* the dispose() forceCleanup awaits returns (ok) or throws: the entry is
\* deleted from resources if it returned, and the loop goes on
MmCleanupDisposed(ok) ==
  /\ mm.cleanup.pc = "disposing"
  /\ LET id == mm.cleanup.cursor
         m == IF ok THEN [mm EXCEPT !.res[id].disposed = TRUE,
                                    !.res[id].inResources = FALSE]
                    ELSE mm
     IN mm' = Sweep([m EXCEPT !.cleanup.pc = "sweeping"], id + 1)
  /\ UNCHANGED exceptMm

\* releaseResource(id) of an id trackResource has returned, up to its await
\* of dispose(), or to its end; calls for one id may overlap
MmReleaseResource(id) ==
  /\ id < mm.nextId
  /\ mm.res[id].release < MaxReleases
  /\ mm' = IF ~mm.res[id].inResources THEN mm
           ELSE IF mm.res[id].target = "alive" /\ mm.res[id].disposable
             THEN [mm EXCEPT !.res[id].release = @ + 1]
           ELSE HandleResourceCleanup(
                  [mm EXCEPT !.res[id].inResources = FALSE], id)
  /\ UNCHANGED exceptMm

\* the dispose() releaseResource awaits returns (ok) or throws
MmReleaseDisposed(id, ok) ==
  /\ mm.res[id].release > 0
  /\ mm' = IF ok
             THEN HandleResourceCleanup(
                    [mm EXCEPT !.res[id].disposed = TRUE,
                               !.res[id].inResources = FALSE,
                               !.res[id].release = @ - 1], id)
             ELSE [mm EXCEPT !.res[id].release = @ - 1]
  /\ UNCHANGED exceptMm

\* the garbage collector reclaims a resource nobody holds: not one whose
\* dispose() the manager is awaiting
MmCollect(id) ==
  /\ mm.res[id].target = "alive"
  /\ mm.res[id].release = 0
  /\ ~(mm.cleanup.pc = "disposing" /\ mm.cleanup.cursor = id)
  /\ mm' = [mm EXCEPT !.res[id].target = "collected"]
  /\ UNCHANGED exceptMm

\* the FinalizationRegistry calls handleResourceCleanup(id) back
MmFinalize(id) ==
  /\ mm.res[id].target = "collected"
  /\ mm' = HandleResourceCleanup([mm EXCEPT !.res[id].target = "finalized"], id)
  /\ UNCHANGED exceptMm

\* dispose(): the interval is cleared, resources is emptied
MmDispose ==
  /\ ~mm.disposed
  /\ mm' = [mm EXCEPT !.disposed = TRUE,
                      !.res = [id \in ResourceIds |->
                                 [@[id] EXCEPT !.inResources = FALSE]]]
  /\ UNCHANGED exceptMm

NextMemory ==
  \/ \E size \in ResourceSizes : \E disposable \in BOOLEAN :
       MmTrackResource(size, disposable)
  \/ MmCheckMemoryUsage
  \/ MmCleanup
  \/ \E ok \in BOOLEAN : MmCleanupDisposed(ok)
  \/ \E id \in ResourceIds :
       \/ MmReleaseResource(id)
       \/ \E ok \in BOOLEAN : MmReleaseDisposed(id, ok)
       \/ MmCollect(id)
       \/ MmFinalize(id)
  \/ MmDispose

SpecMemory == Init /\ [][NextMemory]_vars

\* -------------------------------------------- StateManager called directly

\* updateProgress past its getState: the object is mutated and saveState is
\* called with it, up to the await of storage.set
UpdateAndSave(m, ref, i) ==
  LET h == [m.heap EXCEPT ![ref] = UpdatedState(@, i, i + 1)]
  IN [m EXCEPT !.heap = h, !.memoryStates = ref, !.storage = h[ref],
               !.update[i] = [pc |-> "save", got |-> Null, found |-> TRUE]]

\* updateProgress resumes after the storage.get of getState: nothing stored,
\* nothing to update; else the parsed object enters memoryStates, is mutated
\* and saved
UpdateLoaded(m, i) ==
  IF m.update[i].got = Null
    THEN [m EXCEPT !.update[i].pc = "done"]
    ELSE UpdateAndSave([m EXCEPT !.heap = Append(@, m.update[i].got)],
                       Len(m.heap) + 1, i)

\* initializeState(fileItem) of a file with MaxAcked chunks, with the
\* totalChunks and status the upload sets before its first chunk
SmInitializeState ==
  /\ sm.heap = << >>
  /\ sm.storage = Null
  /\ LET s == [FreshState EXCEPT !.status = "uploading",
                                 !.totalChunks = MaxAcked]
     IN sm' = [sm EXCEPT !.heap = << s >>, !.memoryStates = 1, !.storage = s]
  /\ UNCHANGED exceptSm

\* the page is loaded again while no call is under way: a new StateManager
\* with an empty map over the same backend
SmReload ==
  /\ sm.reloads < MaxReloads
  /\ \A i \in AckedChunks : sm.update[i].pc = "none"
  /\ sm' = [sm EXCEPT !.heap = << >>, !.memoryStates = 0, !.reloads = @ + 1]
  /\ UNCHANGED exceptSm

\* updateProgress(fileId, i, bytes) up to its first await that is more than
\* a microtask: storage.get on a miss of memoryStates, storage.set on a hit
SmUpdateProgress(i) ==
  /\ sm.update[i].pc = "none"
  /\ sm' = IF sm.memoryStates # 0
             THEN UpdateAndSave(sm, sm.memoryStates, i)
             ELSE [sm EXCEPT !.update[i] =
                     [pc |-> "get", got |-> sm.storage, found |-> FALSE]]
  /\ UNCHANGED exceptSm

\* the storage.get of the call resolves
SmUpdateLoaded(i) ==
  /\ sm.update[i].pc = "get"
  /\ sm' = UpdateLoaded(sm, i)
  /\ UNCHANGED exceptSm

\* the storage.set of the call resolves: updateProgress returns
SmUpdateSaved(i) ==
  /\ sm.update[i].pc = "save"
  /\ sm' = [sm EXCEPT !.update[i].pc = "done"]
  /\ UNCHANGED exceptSm

NextProgress ==
  \/ SmInitializeState
  \/ SmReload
  \/ \E i \in AckedChunks :
       \/ SmUpdateProgress(i)
       \/ SmUpdateLoaded(i)
       \/ SmUpdateSaved(i)

SpecProgress == Init /\ [][NextProgress]_vars

\* ------------------------------------------------------------- ChunkCache

\* the entries of s that pass the test
RECURSIVE SelectEntries(_, _, _)
SelectEntries(s, now, age) ==
  IF s = << >> THEN << >>
  ELSE IF now - Head(s).timestamp > age
    THEN SelectEntries(Tail(s), now, age)
    ELSE << Head(s) >> \o SelectEntries(Tail(s), now, age)

\* cleanExpired(): the entries older than maxAge are deleted
CleanExpired(entries, now) == SelectEntries(entries, now, maxAge)

\* the entry the stable sort by timestamp puts first
OldestIndex(entries) ==
  CHOOSE k \in 1 .. Len(entries) :
    /\ \A j \in 1 .. Len(entries) : entries[k].timestamp <= entries[j].timestamp
    /\ \A j \in 1 .. (k - 1) : entries[j].timestamp > entries[k].timestamp

\* Map.delete of the entry at position k
DeleteAt(entries, k) ==
  [j \in 1 .. (Len(entries) - 1) |-> IF j < k THEN entries[j] ELSE entries[j + 1]]

\* the part of set before its await: the expired entries go, and the oldest
\* entry too when the Map is full
MakeRoom(entries, now) ==
  LET live == CleanExpired(entries, now)
  IN IF Len(live) >= maxSize THEN DeleteAt(live, OldestIndex(live)) ELSE live

\* Map.set(key, entry): a key already there keeps its place
MapSet(entries, key, now) ==
  IF \E k \in 1 .. Len(entries) : entries[k].key = key
    THEN [k \in 1 .. Len(entries) |->
            IF entries[k].key = key THEN [key |-> key, timestamp |-> now]
            ELSE entries[k]]
    ELSE Append(entries, [key |-> key, timestamp |-> now])

\* set(key, chunk) up to its await of compressor.shouldCompress; evicted is
\* the key of the last entry deleted for want of room (0: none)
CacheSet(key) ==
  /\ key \notin cache.setting
  /\ LET live == CleanExpired(cache.entries, cache.now)
     IN cache' = [cache EXCEPT
                   !.entries = MakeRoom(cache.entries, cache.now),
                   !.evicted = IF Len(live) >= maxSize
                                 THEN live[OldestIndex(live)].key ELSE 0,
                   !.setting = @ \cup {key}]
  /\ UNCHANGED exceptCache

\* the compression is decided and done: set stores the entry and returns
CacheSetStored(key) ==
  /\ key \in cache.setting
  /\ cache' = [cache EXCEPT
                 !.entries = MapSet(cache.entries, key, cache.now),
                 !.setting = @ \ {key}]
  /\ UNCHANGED exceptCache

\* get(key): an entry older than maxAge is deleted
CacheGet(key) ==
  /\ \E k \in 1 .. Len(cache.entries) :
       /\ cache.entries[k].key = key
       /\ cache.now - cache.entries[k].timestamp > maxAge
       /\ cache' = [cache EXCEPT !.entries = DeleteAt(@, k)]
  /\ UNCHANGED exceptCache

\* Date.now() moves on
CacheTick ==
  /\ cache.now < MaxCacheTicks
  /\ cache' = [cache EXCEPT !.now = @ + 1]
  /\ UNCHANGED exceptCache

NextCache ==
  \/ \E key \in CacheKeys :
       \/ CacheSet(key)
       \/ CacheSetStored(key)
       \/ CacheGet(key)
  \/ CacheTick

SpecCache == Init /\ [][NextCache]_vars

\* ---------------------------------------------------------- line chunking

\* chunks.forEach(c => c.total = chunks.length); resolve(chunks)
PatchAndResolve(c) ==
  [c EXCEPT !.chunks = [k \in 1 .. Len(c.chunks) |->
                          [c.chunks[k] EXCEPT !.total = Len(c.chunks)]],
            !.resolved = TRUE]

\* the step callback with the next row, up to its await of processChunk
CsvStep ==
  /\ ~csv.completed
  /\ csv.parsed < MaxRows
  /\ LET row == csv.parsed + 1
         arr == Append(csv.arrays[csv.currentChunk], row)
     IN csv' = [csv EXCEPT
                 !.parsed = row,
                 !.arrays[csv.currentChunk] = arr,
                 !.chunkIndex = IF Len(arr) >= linesPerChunk THEN @ + 1 ELSE @,
                 !.validating =
                   IF Len(arr) >= linesPerChunk
                     THEN Append(@, [data |-> csv.currentChunk,
                                     index |-> csv.chunkIndex,
                                     total |-> -1, final |-> FALSE])
                     ELSE @]
  /\ UNCHANGED exceptCsv

\* the complete callback, up to its await of processChunk or to resolve
CsvComplete ==
  /\ ~csv.completed
  /\ csv' = IF Len(csv.arrays[csv.currentChunk]) > 0
              THEN [csv EXCEPT
                     !.completed = TRUE,
                     !.validating =
                       Append(@, [data |-> csv.currentChunk,
                                  index |-> csv.chunkIndex,
                                  total |-> csv.chunkIndex + 1,
                                  final |-> TRUE])]
              ELSE PatchAndResolve([csv EXCEPT !.completed = TRUE])
  /\ UNCHANGED exceptCsv

\* the oldest awaited processChunk returns valid: the step callback pushes
\* its chunk and starts a new currentChunk, the complete callback pushes its
\* chunk, patches the totals and resolves
CsvValidated ==
  /\ csv.validating # << >>
  /\ LET c == Head(csv.validating)
         chunk == [data |-> c.data, index |-> c.index, total |-> c.total]
         pushed == [csv EXCEPT !.validating = Tail(@),
                               !.chunks = Append(@, chunk)]
     IN csv' = IF c.final THEN PatchAndResolve(pushed)
               ELSE [pushed EXCEPT !.arrays = Append(@, << >>),
                                   !.currentChunk = Len(csv.arrays) + 1]
  /\ UNCHANGED exceptCsv

NextLines ==
  \/ CsvStep
  \/ CsvComplete
  \/ CsvValidated

SpecLines == Init /\ [][NextLines]_vars

\* ------------------------------------------------------------------ spec

RunStep(r) ==
  \/ RunGetState(r)
  \/ RunInitChecksum(r)
  \/ RunCreateChunks(r)
  \/ RunSaveTotal(r)
  \/ RunGetResumable(r)
  \/ RunSaveCompleted(r)

TaskStep(r, i) ==
  \/ TaskPost(r, i)
  \/ TaskFetchOk(r, i)
  \/ \E emit \in BOOLEAN : TaskUpGet(r, i, emit)
  \/ \E emit \in BOOLEAN : TaskUpSave(r, i, emit)
  \/ \E kind \in ErrorKinds : TaskFetchFail(r, i, kind)
  \/ TaskFetchAborted(r, i)
  \/ TaskRetryTimer(r, i)

CallerStep ==
  \/ StartUpload
  \/ StartUploadRejected
  \/ \E op \in {"pause", "cancel"} : PauseCall(op)
  \/ PauseGet
  \/ PauseSave
  \/ CancelRemove
  \/ ResumeCall
  \/ ResumeGet

\* pause, cancel, resume and failing POSTs; the process stays up
Next ==
  \/ \E r \in Runs : RunStep(r)
  \/ \E r \in Runs : \E i \in ChunkIdx : TaskStep(r, i)
  \/ CallerStep
  \/ AutoSave

Spec == Init /\ [][Next]_vars

\* an upload that crashes and is resumed, with failing POSTs; nobody pauses
\* or cancels, so that no state is ever found missing
NextResume ==
  \/ StartUpload
  \/ \E r \in Runs :
        \/ RunGetState(r)
        \/ RunInitChecksum(r)
        \/ RunCreateChunks(r)
        \/ RunSaveTotal(r)
        \/ RunSaveCompleted(r)
  \/ \E r \in Runs : \E i \in ChunkIdx :
        \/ TaskPost(r, i)
        \/ TaskFetchOk(r, i)
        \/ \E emit \in BOOLEAN : TaskUpSave(r, i, emit)
        \/ \E kind \in ErrorKinds : TaskFetchFail(r, i, kind)
        \/ TaskRetryTimer(r, i)
  \/ ResumeCall
  \/ ResumeGet
  \/ AutoSave
  \/ Crash

SpecResume == InitWith(BigFileSize) /\ [][NextResume]_vars

LivePcs == {"getState", "initChecksum", "createChunks", "saveTotal",
            "getResumable", "awaitAll", "saveCompleted"}

\* runs whose startUpload has not settled
LiveRuns == { r \in Runs : run[r].pc \in LivePcs }

\* ----------------------------------------------------------------- claims

\* C1: bytesUploaded of the persisted state is the sum of the sizes of the
\* chunks in uploadedChunks
C1_BytesMatchUploaded ==
  storage # Null => storage.bytesUploaded = SumBytes(Uploaded(storage))

\* C2: the run resumeUpload starts after a crash POSTs no chunk the persisted
\* state had at the crash, POSTs no other chunk more than once unless a POST
\* of it failed, and when it resolves every other chunk was POSTed and the
\* persisted uploadedChunks is {0..totalChunks-1}
C2_ResumePostsExactlyMissing ==
  hist.afterCrash > 0 =>
    LET r == hist.afterCrash IN
    /\ \A i \in hist.crashU : posts[r][i] = 0
    /\ \A i \in ChunkIdx : posts[r][i] <= task[r][i].attempts + 1
    /\ \A i \in ChunkIdx \ Chunks : posts[r][i] = 0
    /\ run[r].pc = "resolved" =>
         /\ \A i \in Chunks \ hist.crashU : posts[r][i] >= 1
         /\ Uploaded(storage) = 0 .. (storage.totalChunks - 1)
         /\ storage.totalChunks = NumChunks

\* C2 happens: a resumed run has resolved after a crash that had persisted
\* some but not all chunks
C2_Witness ==
  /\ hist.afterCrash > 0
  /\ run[hist.afterCrash].pc = "resolved"
  /\ hist.crashU # {}
  /\ hist.crashU # Chunks

\* C3: persisted status is completed iff uploadedChunks holds every index
\* below totalChunks
C3_CompletedIffAll ==
  storage # Null =>
    (storage.status = "completed"
       <=> Uploaded(storage) = 0 .. (storage.totalChunks - 1))

\* C3, the direction from completed alone, for the persisted state and the
\* one in memory
C3_CompletedImpliesAll ==
  /\ storage.status = "completed"
       => Uploaded(storage) = 0 .. (storage.totalChunks - 1)
  /\ MemState.status = "completed"
       => Uploaded(MemState) = 0 .. (MemState.totalChunks - 1)

\* C4: once cancelUpload has resolved, and until an upload is started again,
\* neither the in-memory map nor the backend holds a state of the file
C4_CancelledStaysRemoved ==
  hist.cancelledHold => memoryStates = 0 /\ storage = Null

\* C5: once pauseUpload of a live upload has resolved, and until resumeUpload,
\* cancelUpload or startUpload is called, the persisted status is paused
C5_PausedStaysPaused ==
  hist.pausedHold =>
    /\ storage.status = "paused"
    /\ memoryStates # 0 => MemState.status = "paused"

\* C6: a resumeUpload called after pauseUpload of a live upload has resolved
\* is accepted, neither 'Upload cannot be resumed' nor 'Upload already in
\* progress'
C6_ResumeAfterPauseAccepted ==
  hist.resumeAfterPause \in {"none", "accepted"}

C8_NoPostAfterAbort == ~hist.postAfterAbort

\* C9: the bytesUploaded a run passes to its progress callback never
\* decreases, the final callback of the completion included
C9_ProgressMonotone ==
  [][\A r \in Runs : cb[r].has => cb'[r].bytes >= cb[r].bytes]_vars

\* C10: every progress callback of a resumed run reports the bytes of the
\* chunks uploaded before the run plus those of the chunks it has uploaded
C10_ResumeProgressBase ==
  \A r \in Runs : run[r].isResume /\ cb[r].has => cb[r].bytes = cb[r].expected

\* C11: when a run rejects because a chunk failed for good (its signal not
\* aborted), the persisted status is error at that moment, so canResume is
\* false
C11_FatalFailurePersistsError ==
  [][\A r \in Runs :
       (run[r].pc = "awaitAll" /\ run'[r].pc = "rejected" /\ ~aborted[r])
         => (storage'.status = "error" /\ ~CanResume(storage'))]_vars

\* the edges of the state machine of UploadState.status; "null" stands for
\* no state (creation into initialized, removal by cancelUpload)
StatusEdges ==
  { <<"null", "initialized">>, <<"initialized", "uploading">>,
    <<"uploading", "paused">>, <<"paused", "uploading">>,
    <<"uploading", "interrupted">>, <<"interrupted", "uploading">>,
    <<"uploading", "completed">>, <<"uploading", "error">> }
    \cup { <<s, "null">> : s \in {"initialized", "uploading", "paused",
                                  "interrupted", "completed", "error"} }

\* C12: every change of the persisted status follows an edge of the state
\* machine, and the status is uploading while a POST of the file is in flight
C12_StatusFollowsStateMachine ==
  [][/\ storage'.status # storage.status
          => <<storage.status, storage'.status>> \in StatusEdges
     /\ (\E r \in Runs : \E i \in ChunkIdx :
            task'[r][i].pc = "fetch" /\ ~aborted'[r])
          => storage'.status = "uploading"]_vars

\* C13: a chunk whose POST succeeded after j failures with a network error
\* was POSTed j + 1 times, with a wait of min(1000 * 2^(k-1), 30000) ms after
\* the k-th failure, and is once in uploadedChunks; when every chunk of the
\* run is through, the upload completes
C13_RetriesThenSuccess ==
  \A r \in Runs :
    /\ \A i \in ChunkIdx :
         task[r][i].pc \in {"upSave", "done"} =>
           LET j == task[r][i].attempts IN
           /\ j <= 5
           /\ posts[r][i] = j + 1
           /\ task[r][i].delays =
                [k \in 1 .. j |-> IF 1000 * 2 ^ (k - 1) < 30000
                                  THEN 1000 * 2 ^ (k - 1) ELSE 30000]
           /\ Cardinality({ n \in 1 .. Len(storage.uploadedChunks) :
                              storage.uploadedChunks[n] = i }) = 1
    /\ (run[r].pc # "rejected" /\ run[r].pc \in {"awaitAll", "saveCompleted", "resolved"}
          /\ \A i \in ChunkIdx : task[r][i].pc \in {"none", "done"})
         => /\ run[r].pc \in {"saveCompleted", "resolved"}
            /\ storage.status = "completed"
            /\ Uploaded(storage) = Chunks

\* C13 happens: an upload has completed with a chunk that failed twice (waits
\* of 1 s and 2 s) and a chunk that failed three times
C13_Witness ==
  \E r \in Runs : \E i, k \in Chunks :
    /\ run[r].pc = "resolved"
    /\ task[r][i].pc = "done" /\ task[r][i].delays = << 1000, 2000 >>
    /\ task[r][k].pc = "done" /\ task[r][k].attempts = 3

\* fib(1) = fib(2) = 1, fib(k) = fib(k-1) + fib(k-2)
RECURSIVE Fib(_)
Fib(k) == IF k <= 2 THEN 1 ELSE Fib(k - 1) + Fib(k - 2)

\* the delay before attempt k under a strategy, as the curves are specified
CurveDelay(s, k) ==
  LET d == CASE s.strategy = "immediate" -> 0
             [] s.strategy = "linear" -> s.baseDelay * k
             [] s.strategy = "exponential" -> s.baseDelay * 2 ^ (k - 1)
             [] s.strategy = "fibonacci" -> Fib(k) * s.baseDelay
  IN IF d > s.maxDelay THEN s.maxDelay ELSE d

\* C14: for every strategy in force and every attempt k >= 1 the retry delay
\* is min(maxDelay, d(k)); a handleError call with retryCount r below
\* maxRetries that no condition of the strategy (skipIfErrorIncludes,
\* requiresUserAction) excludes from retry returns shouldRetry with the delay
\* for k = r + 1, and a call that returns shouldRetry returns that delay
C14_RetryDelayCurves ==
  /\ \A type \in ErrorTypes : \A k \in 1 .. (MaxRetryCount + 1) :
       em.retryStrategies[type] # NoStrategy =>
         CalculateNextRetryDelay(em.retryStrategies[type], k)
           = CurveDelay(em.retryStrategies[type], k)
  /\ em.last.called =>
       LET s == em.last.strategy
           r == em.last.retryCount
           excluded == \/ s.hasSkipList /\ em.last.skipMatch
                       \/ s.requiresUserAction
       IN /\ (s # NoStrategy /\ r < s.maxRetries /\ ~excluded)
               => em.last.shouldRetry
          /\ em.last.shouldRetry => em.last.retryDelay = CurveDelay(s, r + 1)
          /\ ~em.last.shouldRetry => em.last.retryDelay = 0

\* C14 happens: handleError has answered with a delay cut to maxDelay under
\* the fibonacci curve
C14_Witness ==
  /\ em.last.called
  /\ em.last.shouldRetry
  /\ em.last.strategy.strategy = "fibonacci"
  /\ em.last.retryDelay = em.last.strategy.maxDelay
  /\ em.last.retryDelay < Fib(em.last.retryCount + 1) * em.last.strategy.baseDelay

\* C14 as stated: every handleError call with retryCount r below maxRetries
\* returns the delay for k = r + 1
C14_DelayForEveryCall ==
  (em.last.called /\ em.last.strategy # NoStrategy
     /\ em.last.retryCount < em.last.strategy.maxRetries)
    => em.last.retryDelay = CurveDelay(em.last.strategy, em.last.retryCount + 1)

\* C15: whenever checkRateLimit is called, it denies the call and records
\* nothing when maxRequestsPerMinute admissions already lie inside the 60 s
\* window that ends at the call, it admits the call when fewer do and a
\* concurrency slot is free (so a call made after the oldest admission aged
\* out is admitted again), and no admission ever has more than
\* maxRequestsPerMinute admissions in the 60 s window that ends at it.
AdmittedInWindow(admissions, at) ==
  Cardinality({n \in DOMAIN admissions : at - admissions[n] < WindowMs
                                          /\ admissions[n] <= at})

C15_RateWindow ==
  [][sec'.checks = sec.checks + 1 =>
       LET inWindow == AdmittedInWindow(sec.admissions, sec.now)
       IN /\ inWindow >= maxRequestsPerMinute =>
               /\ ~sec'.lastCheck.admitted
               /\ sec'.concurrentUploads = sec.concurrentUploads
               /\ Len(sec'.requests) <= Len(sec.requests)
               /\ \A n \in DOMAIN sec'.requests :
                     \E m \in DOMAIN sec.requests :
                       sec.requests[m] = sec'.requests[n]
          /\ (inWindow < maxRequestsPerMinute
               /\ sec.concurrentUploads < maxConcurrentUploads) =>
               /\ sec'.lastCheck.admitted
               /\ sec'.concurrentUploads = sec.concurrentUploads + 1
          /\ \A n \in DOMAIN sec'.admissions :
               AdmittedInWindow(sec'.admissions, sec'.admissions[n])
                 <= maxRequestsPerMinute]_vars

\* maxRequestsPerMinute admissions, a denied call inside their window, and
\* an admission one second after the oldest admission left the window
C15_Witness ==
  /\ Len(sec.admissions) > maxRequestsPerMinute
  /\ sec.checks > Len(sec.admissions)
  /\ sec.lastCheck.admitted
  /\ sec.lastCheck.at = sec.admissions[1] + WindowMs + MsPerSecond

\* C17: a token that was neither revoked nor evicted by the per-user cap is
\* accepted by validateAccessToken at every time earlier than
\* tokenExpiration seconds after its generation, and rejected at every later
\* time.
C17_TokenValidUntilExpiry ==
  LET v == sec.lastValidate
  IN (v.called /\ v.removed = "no") =>
       /\ v.at < v.issued + tokenExpiration * MsPerSecond => v.accepted
       /\ v.at > v.issued + tokenExpiration * MsPerSecond => ~v.accepted

\* C16: the number of uploads that checkRateLimit admitted and that have
\* not finished never exceeds maxConcurrentUploads.
AdmittedLive ==
  {c \in Calls : stream[c].rateOk = "ok"
                  /\ stream[c].pc \notin {"idle", "resolved", "rejected"}}

C16_ConcurrencyCap == Cardinality(AdmittedLive) <= maxConcurrentUploads

\* C18: a startStreaming call has issued a chunk POST only if
\* validateAccessToken, checkRateLimit and validateFile all succeeded for
\* it; a call for which one of them failed is rejected with no POST issued
\* and with no encryption key, stream state or abort controller left.
ChecksPassed(c) ==
  /\ stream[c].tokenOk = "ok"
  /\ stream[c].rateOk = "ok"
  /\ stream[c].fileOk = "ok"

CheckFailed(c) ==
  "failed" \in {stream[c].tokenOk, stream[c].rateOk, stream[c].fileOk}

C18_NoPostUnlessChecked ==
  \A c \in Calls :
    /\ stream[c].posts > 0 => ChecksPassed(c)
    /\ CheckFailed(c) =>
         /\ stream[c].pc = "rejected"
         /\ stream[c].posts = 0
         /\ ~stream[c].key
         /\ stream[c].state = "none"
         /\ ~stream[c].controller

\* a call rejected by each of the three checks, and a call that passed
\* them and posted a chunk
C18_Witness ==
  /\ \E c \in Calls : stream[c].tokenOk = "failed"
  /\ \E c \in Calls : stream[c].rateOk = "failed"
  /\ \E c \in Calls : stream[c].fileOk = "failed"
  /\ \E c \in Calls : ChecksPassed(c) /\ stream[c].posts > 0

\* C19: an encryption key exists for a fileId only while its upload is
\* live, after the security checks of its startStreaming call passed; once
\* the call has settled by success, failure or abort no key remains.
C19_KeyOnlyWhileLive ==
  \A c \in Calls :
    /\ stream[c].key =>
         ChecksPassed(c) /\ stream[c].pc \in {"transform", "post"}
    /\ stream[c].pc \in {"idle", "resolved", "rejected"} => ~stream[c].key

\* one upload succeeded, one failed and one was aborted, all settled
C19_Witness ==
  /\ \E c \in Calls : stream[c].pc = "resolved" /\ stream[c].posts = StreamChunks
  /\ \E c \in Calls :
       stream[c].pc = "rejected" /\ stream[c].posts > 0 /\ ~stream[c].aborted
  /\ \E c \in Calls :
       stream[c].pc = "rejected" /\ stream[c].posts > 0 /\ stream[c].aborted
  /\ \A c \in Calls : ~stream[c].key

\* C20: the number of items with status uploading never exceeds
\* maxConcurrent, and getNext returns null whenever maxConcurrent items are
\* uploading.
C20_UploadingWithinCap ==
  /\ Cardinality(Uploading(queue.queue)) <= maxConcurrent
  /\ (queue.lastNext.called /\ queue.lastNext.uploadingBefore >= maxConcurrent)
       => queue.lastNext.returned = 0

\* C21: the counter activeUploads equals the number of queue items whose
\* status is uploading, and is never negative.
C21_CounterMatchesUploading ==
  /\ queue.activeUploads = Cardinality(Uploading(queue.queue))
  /\ queue.activeUploads >= 0

\* C22: whenever getNext returns an item (the one step that makes an item
\* uploading), no item that was queued at that moment comes before it under
\* the order priority descending, then retryAttempts ascending, then
\* startTime ascending.
ComesBefore(a, b) ==
  \/ a.priority > b.priority
  \/ a.priority = b.priority /\ a.retryAttempts < b.retryAttempts
  \/ /\ a.priority = b.priority
     /\ a.retryAttempts = b.retryAttempts
     /\ a.startTime < b.startTime

C22_GetNextReturnsFirstQueued ==
  [][Cardinality(Uploading(queue'.queue)) > Cardinality(Uploading(queue.queue)) =>
       \E n \in DOMAIN queue.queue :
         /\ queue.queue[n].status = "queued"
         /\ queue'.queue = [queue.queue EXCEPT ![n].status = "uploading"]
         /\ queue'.lastNext.returned = queue.queue[n].fileId
         /\ \A m \in DOMAIN queue.queue :
              queue.queue[m].status = "queued" =>
                ~ComesBefore(queue.queue[m], queue.queue[n])]_vars

\* getNext has just returned an item without retries while an item of the
\* same priority that was added earlier and has failed before is queued
C22_Witness ==
  \E n, m \in DOMAIN queue.queue :
    /\ queue.lastNext.returned = queue.queue[n].fileId
    /\ queue.queue[n].status = "uploading"
    /\ queue.queue[n].retryAttempts = 0
    /\ queue.queue[m].status = "queued"
    /\ queue.queue[m].retryAttempts > 0
    /\ queue.queue[m].priority = queue.queue[n].priority
    /\ queue.queue[m].startTime < queue.queue[n].startTime
    /\ queue.queue[m].fileId # queue.queue[n].fileId

\* C23: at any time at most concurrentStreams chunk POSTs of one file are
\* in flight, in the resumable upload (over the runs of the file) and in
\* each streaming call.
PostsInFlight ==
  {ri \in Runs \X ChunkIdx : task[ri[1]][ri[2]].pc = "fetch"}

C23_InFlightWithinConcurrentStreams ==
  /\ Cardinality(PostsInFlight) <= concurrentStreams
  /\ \A c \in Calls :
       (IF stream[c].pc = "post" THEN 1 ELSE 0) <= concurrentStreams

\* C24: size-mode chunking of a file of S >= 0 bytes with chunk size N >= 1
\* yields exactly ceil(S/N) chunks with indices 0 .. ceil(S/N)-1 in order,
\* chunk i covering [i*N, min((i+1)*N, S)) and carrying total = ceil(S/N);
\* the sizes sum to S, an empty file yields no chunk and a file with
\* 0 < S <= N one chunk; the chunks of the stream source cover the same
\* ranges with the same indices.
Ceiling(s, n) == CHOOSE k \in 0 .. s : k * n >= s /\ (k = 0 \/ (k - 1) * n < s)

RECURSIVE SizesSum(_)
SizesSum(chunks) ==
  IF chunks = << >> THEN 0
  ELSE (chunks[1].end - chunks[1].start) + SizesSum(Tail(chunks))

CoversInOrder(chunks, s, n) ==
  /\ Len(chunks) = Ceiling(s, n)
  /\ \A k \in DOMAIN chunks :
       /\ chunks[k].index = k - 1
       /\ chunks[k].start = (k - 1) * n
       /\ chunks[k].end = IF k * n < s THEN k * n ELSE s
       /\ chunks[k].start < chunks[k].end
  /\ SizesSum(chunks) = s

C24_SizeChunksCoverFile ==
  /\ chunker.returned =>
       /\ CoversInOrder(chunker.chunks, chunker.size, chunker.chunkSize)
       /\ \A k \in DOMAIN chunker.chunks :
            chunker.chunks[k].total = Ceiling(chunker.size, chunker.chunkSize)
       /\ chunker.size = 0 => chunker.chunks = << >>
       /\ (0 < chunker.size /\ chunker.size <= chunker.chunkSize) =>
            Len(chunker.chunks) = 1 /\ chunker.chunks[1].total = 1
  /\ chunker.closed =>
       CoversInOrder(chunker.streamed, chunker.size, chunker.chunkSize)

\* a file chunked into three or more chunks, the last one short, by the
\* loop and by the stream source
C24_Witness ==
  /\ chunker.returned
  /\ chunker.closed
  /\ Len(chunker.chunks) >= 3
  /\ chunker.size % chunker.chunkSize # 0
  /\ chunker.chunkSize > 1

\* C25: at every progress callback the reported bytesUploaded does not
\* exceed the total size of the chunks whose POST has returned 2xx (in the
\* streaming pipeline: offset counts the acknowledged chunks of a call).
C25_ProgressOnlyAfterAck ==
  \A c \in Calls : stream[c].reported <= stream[c].offset

\* C26: after dispose no promise returned by addTask stays unsettled
\* forever: every task that was pending, queued or dispatched, is rejected.
WmAllSettled == \A t \in Tasks : wm.tasks[t].promise # "pending"

C26_DisposeSettlesAll == wm.disposed ~> WmAllSettled

\* C27: the promise of a worker task is rejected only after retryAttempts
\* retries have failed; a timeout is a failed attempt that is retried while
\* attempts are below retryAttempts.
C27_RejectedOnlyAfterRetries ==
  \A t \in Tasks :
    wm.tasks[t].promise = "rejected" => wm.tasks[t].attempts >= retryAttempts

\* C28: with a strategy whose requiresUserAction is set, handleError answers
\* (false, 0) whatever the retryCount and hands the report to the subscribers
C28_UserActionNeverRetried ==
  (em.last.called /\ em.last.strategy.requiresUserAction)
    => /\ ~em.last.shouldRetry
       /\ em.last.retryDelay = 0
       /\ em.last.notified >= 1

\* a call with such a strategy, retries left and no excluded message
C28_Witness ==
  /\ em.last.called
  /\ em.last.strategy.requiresUserAction
  /\ ~em.last.skipMatch
  /\ em.last.retryCount < em.last.strategy.maxRetries
  /\ ~em.last.shouldRetry
  /\ em.last.notified = 2

\* C29: the severity is critical when isRecoverable is false or retryCount
\* is 5 or more, whatever the kind; else warning for a network error with
\* retryCount below 3; else error
C29_SeverityCriticalFirst ==
  em.last.called =>
    em.last.severity =
      IF em.last.isRecoverable = "false" \/ em.last.retryCount >= 5
        THEN "critical"
      ELSE IF em.last.type = "network" /\ em.last.retryCount < 3
        THEN "warning"
      ELSE "error"

\* C30: peakMemoryUsage is at least totalAllocated in every state, the
\* state right after a trackResource call included
C30_PeakAtLeastAllocated == mm.peakMemoryUsage >= mm.totalAllocated

\* C31: when the forceCleanup of a checkMemoryUsage above the critical
\* threshold has disposed a resource, the resource is untracked and its size
\* is credited back: no entry of resources, no entry of resourceStats,
\* totalAllocated and activeResources without its share
C31_CriticalCleanupCredits ==
  [][LET id == mm.cleanup.cursor
     IN (/\ mm.cleanup.pc = "disposing"
         /\ mm.cleanup.caller = "check"
         /\ mm.cleanup.level = "critical"
         /\ mm'.cleanup # mm.cleanup
         /\ mm'.res[id].disposed)
        => /\ ~mm'.res[id].inResources
           /\ ~mm'.res[id].hasStats
           /\ mm.res[id].hasStats =>
                /\ mm'.totalAllocated = mm.totalAllocated - mm.res[id].size
                /\ mm'.activeResources = mm.activeResources - 1]_vars

\* the sum of the sizes and the number of the entries of resourceStats
RECURSIVE StatsSize(_)
StatsSize(ids) ==
  IF ids = {} THEN 0
  ELSE LET id == CHOOSE id \in ids : TRUE
       IN (IF mm.res[id].hasStats THEN mm.res[id].size ELSE 0)
            + StatsSize(ids \ {id})

StatsCount == Cardinality({id \in ResourceIds : mm.res[id].hasStats})

\* C40: totalAllocated is the sum of the sizes in resourceStats,
\* activeResources the number of its entries, and neither is negative:
\* a size is credited once, however often handleResourceCleanup(id) runs
C40_CountersMatchStats ==
  /\ mm.totalAllocated = StatsSize(ResourceIds)
  /\ mm.activeResources = StatsCount
  /\ mm.totalAllocated >= 0
  /\ mm.activeResources >= 0

\* a resource released twice at once and finalized after that: three
\* handleResourceCleanup calls for its id, while another is still charged
C40_Witness ==
  \E id \in ResourceIds :
    /\ mm.res[id].cleanups = 3
    /\ mm.res[id].target = "finalized"
    /\ mm.res[id].disposed
    /\ mm.totalAllocated > 0

\* how often x occurs in the sequence s
RECURSIVE Occurrences(_, _)
Occurrences(s, x) ==
  IF s = << >> THEN 0
  ELSE (IF Head(s) = x THEN 1 ELSE 0) + Occurrences(Tail(s), x)

\* the updateProgress calls that found the state of the file
UpdatesFound == {i \in AckedChunks : sm.update[i].found}

\* C32: once every updateProgress call has returned, uploadedChunks in
\* memoryStates and in the backend holds the index of each of them once
C32_NoLostUpdate ==
  (\A i \in AckedChunks : sm.update[i].pc \in {"none", "done"})
    => \A i \in UpdatesFound :
         /\ sm.memoryStates # 0
         /\ Occurrences(sm.heap[sm.memoryStates].uploadedChunks, i) = 1
         /\ Occurrences(sm.storage.uploadedChunks, i) = 1

\* C33: the ChunkCache never holds more than maxSize entries
C33_CacheWithinMaxSize == Len(cache.entries) <= maxSize

\* the rows of the chunks of csv.chunks from the k-th on, in order
RECURSIVE RowsFrom(_)
RowsFrom(k) ==
  IF k > Len(csv.chunks) THEN << >>
  ELSE csv.arrays[csv.chunks[k].data] \o RowsFrom(k + 1)

\* C34: when line chunking of a CSV file has resolved, its chunks are
\* numbered 0..n-1, each carries total n, all but the last hold exactly
\* linesPerChunk rows, and together they hold the parsed rows once, in order
C34_LineChunksPartitionRows ==
  csv.resolved =>
    LET n == Len(csv.chunks)
    IN /\ \A k \in 1 .. n :
            /\ csv.chunks[k].index = k - 1
            /\ csv.chunks[k].total = n
            /\ k < n => Len(csv.arrays[csv.chunks[k].data]) = linesPerChunk
            /\ Len(csv.arrays[csv.chunks[k].data]) \in 1 .. linesPerChunk
       /\ RowsFrom(1) = [r \in 1 .. csv.parsed |-> r]

\* worker w posts an answer in this step (and may be posted the next task)
WorkerAnswers(w) ==
  /\ wm.inbox[w] # << >>
  /\ wm'.disposed = wm.disposed
  /\ \/ wm'.inbox[w] = Tail(wm.inbox[w])
     \/ \E t \in Tasks : wm'.inbox[w] = Append(Tail(wm.inbox[w]), t)

\* the timer of dispatch d fires in this step
TimerFires(d) ==
  /\ d \in DOMAIN wm.dispatches
  /\ wm.dispatches[d].timer = "armed"
  /\ wm'.dispatches[d].timer = "fired"

\* C35: when a worker answers with success for the task it is running, whose
\* promise is pending and whose timer has not fired, the promise of addTask
\* resolves
C35_SuccessResolvesTask ==
  [][\A w \in Workers :
       LET t == wm.activeWorkers[w]
           d == wm.tasks[t].resolve
       IN (/\ WorkerAnswers(w)
           /\ t # 0
           /\ Head(wm.inbox[w]) = t
           /\ wm.tasks[t].promise = "pending"
           /\ d # 0
           /\ wm.dispatches[d].timer = "armed"
           /\ wm.dispatches[d].race = "pending"
           /\ wm'.dispatches[d].race = "resolved")
          => wm'.tasks[t].promise = "resolved"]_vars

\* C36: an answer to a task the worker no longer runs, and the timer of a
\* dispatch that is no longer the one its task runs under, settle no task
\* and leave the worker's entry of activeWorkers alone
C36_StaleEventsChangeNothing ==
  [][/\ \A w \in Workers :
          (WorkerAnswers(w) /\ Head(wm.inbox[w]) # wm.activeWorkers[w])
            => /\ \A t \in Tasks : wm'.tasks[t].promise = wm.tasks[t].promise
               /\ wm'.activeWorkers[w] = wm.activeWorkers[w]
     /\ \A d \in Dispatches :
          (/\ TimerFires(d)
           /\ \/ wm.activeWorkers[wm.dispatches[d].worker] # wm.dispatches[d].task
              \/ wm.tasks[wm.dispatches[d].task].resolve # d)
            => /\ \A t \in Tasks : wm'.tasks[t].promise = wm.tasks[t].promise
               /\ wm'.activeWorkers = wm.activeWorkers]_vars

\* the largest maxRetries of the default strategies
LargestMaxRetries ==
  CHOOSE n \in { DefaultStrategies[type].maxRetries : type \in ErrorTypes } :
    \A type \in ErrorTypes : DefaultStrategies[type].maxRetries <= n

\* C37: a chunk is POSTed at most 1 + the largest maxRetries times, at most
\* 1 + maxRetries(kind) times when its failures are all of one kind, once
\* when they are all unknown or all validation; it waits for a retry only
\* after fewer failures than that, else the error is thrown
C37_RetryLoopTerminates ==
  \A r \in Runs : \A i \in ChunkIdx :
    LET t == task[r][i]
    IN /\ posts[r][i] <= 1 + LargestMaxRetries
       /\ t.attempts <= LargestMaxRetries
       /\ \A kind \in ErrorTypes :
            t.kinds = {kind} =>
              /\ posts[r][i] <= 1 + DefaultStrategies[kind].maxRetries
              /\ kind \in {"unknown", "validation"} =>
                   /\ posts[r][i] = 1
                   /\ t.pc = "failed"
       /\ (t.kinds # {} /\ t.pc \notin {"retryDelay", "start", "fetch",
                                        "upGet", "upSave", "done"})
            => t.pc = "failed"

\* a chunk that was POSTed six times, failed with errors of several kinds,
\* and whose error was thrown; and one that a validation error stopped at once
C37_Witness ==
  /\ \E r \in Runs : \E i \in ChunkIdx :
       /\ posts[r][i] = 6
       /\ Cardinality(task[r][i].kinds) >= 2
       /\ task[r][i].pc = "failed"
  /\ \E r \in Runs : \E i \in ChunkIdx :
       /\ task[r][i].kinds = {"validation"}
       /\ task[r][i].pc = "failed"


\* C38: once the persisted status of a file is completed, no later step of
\* the same upload (no new startUpload in between) turns the persisted
\* status into paused, not even a pauseUpload or cancelUpload called while
\* the completion save is awaited
C38_CompletedNeverPaused ==
  [][(/\ storage # Null
      /\ storage.status = "completed"
      /\ numRuns' = numRuns
      /\ storage' # Null)
     => storage'.status # "paused"]_vars


\* the chunks the server has acknowledged, in any run so far
AckedEver == UNION { acked[r] : r \in Runs }

\* C39: uploadedChunks of the persisted state holds only chunks of which a
\* POST returned 2xx, and whenever the persisted status is completed every
\* index below totalChunks has been acknowledged by the server in some run
C39_CompletedMeansAllAcked ==
  storage # Null =>
    /\ Uploaded(storage) \subseteq AckedEver
    /\ storage.status = "completed" =>
         /\ storage.totalChunks = NumChunks
         /\ Chunks \subseteq AckedEver

====
